---- MODULE Spec2Model ----
(***************************************************************************)
(* Grocy Amazon AutoBuy: the order ledger (OrderHistory / OrderService),   *)
(* the Telegram lifecycle tracker (TelegramClient) and the evaluation      *)
(* cycle that drives them, as a state machine.                             *)
(*                                                                         *)
(* Stock amounts are floats in the source; the evaluation cycle uses whole  *)
(* units, the products of SpecModels have fractional amounts.              *)
(* Timestamps are modelled by the calendar day they fall on.               *)
(***************************************************************************)
EXTENDS Integers, Sequences, FiniteSets, TLC

\* ------------------------------------------------------------------ bounds
AsinOrder == <<"B1", "B2">>    \* the catalogue's products, in the order Grocy lists them
ASINS == {AsinOrder[i] : i \in 1..Len(AsinOrder)}
TelegramAsins == {AsinOrder[1]}  \* the products the Telegram client is called for
MaxStock == 2                  \* stock amounts range over 0..MaxStock
MaxDay == 1                    \* calendar days range over 0..MaxDay
MaxLimit == 1                  \* max_orders_per_day is drawn from 0..MaxLimit
MaxQuantity == 2               \* send_order_notification quantities range over 1..MaxQuantity
MaxMessages == 3               \* Telegram hands out the message ids 1..MaxMessages
MaxFaults == 1                 \* failing Telegram requests, hook calls and saves of
                               \* telegram_messages.json in one behaviour

Denominator == 2               \* fractional amounts are counted in 1/Denominator of a unit
MaxAmount == 5                 \* fractional amounts range over 0..MaxAmount (in 1/Denominator)
MaxUnits == 3                  \* amazon_order_units is drawn from -MaxBelowZero..MaxUnits
MaxBelowZero == 1              \* amazon_order_units goes down to -MaxBelowZero
MaxUpdates == 3                \* Telegram hands out the update ids 1..MaxUpdates
MaxThreads == 2                \* polling threads of one client that exist at a time
MaxBatch == 2                  \* a getUpdates response carries at most MaxBatch updates

\* ------------------------------------------------------- program constants
StockMin == 2                  \* min_stock_amount of every catalogue product
PollErrorDelay == 5            \* _polling_loop sleeps 5 seconds after an error
HistoryCap == 100              \* _save_history keeps the last 100 orders

NoAsin == ""                   \* a product without amazon_asin
Null == "null"                 \* Python's None
BlankAsins == {" ", "  "}      \* identifiers made of whitespace only
NoTime == -1                   \* None in a datetime field
NoMessage == 0                 \* None as send_message's result

\* validate_mode: the ORDER_MODE values OrderSettings accepts ("voice_command"
\* is turned into "voice_order"; "cart_link" is rejected)
Modes == {"voice_order", "shopping_list", "notify_only"}
\* the modes the initial states draw from: one that calls Home Assistant and
\* the one that succeeds without a call
InitModes == {"shopping_list", "notify_only"}
UnitsOf == [a \in ASINS |-> IF a = AsinOrder[1] THEN 1 ELSE 2]  \* amazon_order_units per product

Max2(a, b) == IF a >= b THEN a ELSE b

Last(seq) == seq[Len(seq)]

\* ---------------------------------------------------------------- variables
VARIABLES
    settings,      \* OrderSettings / TelegramSettings of the running process
    day,           \* datetime.now().date()
    stock,         \* check_and_order: the stock amounts Grocy returned to the
                   \* running evaluation cycle (asin -> amount), NoStock outside one
    history,       \* OrderService.history: [orders, pending_deliveries]
    file,          \* data/order_history.json
    pc,            \* evaluation task: "idle", "batch" (inside process_products) or
                   \* "return" (check_and_order about to return)
    todo,          \* products of the running batch not yet processed
    orders,        \* process_products' local list of returned OrderRequests
    io,            \* the last operation: its input and what it did to the outside world
    placed,        \* history variable: asin -> stock at its last placed order, kept
                   \* until a process_order call sees a greater stock for the asin
    known,         \* history variable: the asins of `placed` whose marker the running
                   \* process set itself or loaded from the history file
    placed_today,  \* history variable: the orders placed on `day` by this and by
                   \* earlier processes, counted up to MaxLimit + 1
    enabled,           \* TelegramClient.enabled
    tracked_messages,  \* TelegramClient.tracked_messages: asin -> TrackedMessage
    messages_file,     \* data/telegram_messages.json
    last_message_id,   \* Telegram: the id given to the last message of the chat
    chat,              \* history variable: the order notifications that were sent and
                       \* not deleted (message id -> asin)
    faults,            \* the number of failed Telegram requests and saves
    task,              \* evaluation thread: the TelegramClient call it is inside
    listener,          \* polling thread: the callback _process_callback is inside
    polling_active,    \* TelegramClient._polling_active
    last_update_id,    \* TelegramClient._last_update_id
    poll               \* polling thread: its position in _polling_loop

ledgerVars == <<settings, stock, history, file, pc, todo, orders, placed, known, placed_today>>
telegramVars ==
    <<enabled, tracked_messages, messages_file, last_message_id, chat, faults, task, listener>>
pollingVars == <<polling_active, last_update_id, poll>>
vars == <<day, io, ledgerVars, telegramVars, pollingVars>>

\* ------------------------------------------------------------------ models.py
\* Product.__post_init__
missing_amount(stock_amount, stock_min_amount) ==
    Max2(0, stock_min_amount - stock_amount)

\* max(1, int((missing_amount + units - 1) // units)) for a float
\* missing_amount of m / d and an int units: float floor division gives
\* floor((m/d + units - 1) / units) = floor((m + d * (units - 1)) / (d * units))
packages(m, d, units) ==
    IF m > 0 /\ units > 0
    THEN Max2(1, (m + d * (units - 1)) \div (d * units))
    ELSE 0

\* packages_to_order for amounts in whole units
packages_to_order(stock_amount, stock_min_amount, units) ==
    packages(missing_amount(stock_amount, stock_min_amount), 1, units)

Product(asin, stock_amount, stock_min_amount, units) ==
    [amazon_asin |-> asin,
     stock_amount |-> stock_amount,
     stock_min_amount |-> stock_min_amount,
     amazon_order_units |-> units,
     missing_amount |-> missing_amount(stock_amount, stock_min_amount),
     packages_to_order |-> packages_to_order(stock_amount, stock_min_amount, units)]

\* Product(...) with fractional amounts: stock_amount, stock_min_amount and
\* missing_amount are counted in 1/Denominator of a unit
FractionalProduct(asin, stock_amount, stock_min_amount, units) ==
    [amazon_asin |-> asin,
     stock_amount |-> stock_amount,
     stock_min_amount |-> stock_min_amount,
     amazon_order_units |-> units,
     missing_amount |-> missing_amount(stock_amount, stock_min_amount),
     packages_to_order |->
        packages(missing_amount(stock_amount, stock_min_amount), Denominator, units)]

\* str.strip on the identifiers of the model: the ones made of whitespace
\* only become the empty string, the others have no whitespace around them
strip(s) == IF s \in BlankAsins THEN "" ELSE s

\* variant: the identifier is compared without being stripped
needs_reorder_NoStrip(product) ==
    /\ product.missing_amount > 0
    /\ product.amazon_asin # Null
    /\ product.amazon_asin # ""

\* variant: a product at or above its minimum needs a reorder as well
needs_reorder_Always(product) ==
    /\ product.amazon_asin # Null
    /\ strip(product.amazon_asin) # ""

needs_reorder(product) ==
    /\ product.missing_amount > 0
    /\ product.amazon_asin # Null
    /\ strip(product.amazon_asin) # ""

\* OrderRequest(product, quantity, asin): status PENDING, created now
OrderRequest(product, today) ==
    [asin |-> product.amazon_asin,
     quantity |-> product.packages_to_order,
     status |-> "pending",
     created_at |-> today,
     error_message |-> Null]

mark_success(order) ==
    [order EXCEPT !.status = "added_to_list"]

mark_failed(order, error) ==
    [order EXCEPT !.status = "failed", !.error_message = error]

EmptyMap == [a \in {} |-> 0]

EmptyHistory == [orders |-> <<>>, pending_deliveries |-> EmptyMap]

add_order(h, order) == [h EXCEPT !.orders = Append(@, order)]

\* variant: every order of the ledger is counted, whatever its day
count_orders_today_All(h, today) == Len(h.orders)

count_orders_today(h, today) ==
    Cardinality({i \in 1..Len(h.orders) : h.orders[i].created_at = today})

mark_pending_delivery(h, asin, stock_at_order) ==
    [h EXCEPT !.pending_deliveries =
        [a \in (DOMAIN @) \cup {asin} |-> IF a = asin THEN stock_at_order ELSE @[a]]]

WithoutMarker(pending, asin) ==
    [a \in (DOMAIN pending) \ {asin} |-> pending[a]]

\* variant: a stock equal to the marker's already counts as delivered
is_delivery_pending_GreaterEqual(h, asin, current_stock) ==
    IF asin \notin DOMAIN h.pending_deliveries
    THEN [result |-> FALSE, history |-> h]
    ELSE IF current_stock >= h.pending_deliveries[asin]
         THEN [result |-> FALSE,
               history |-> [h EXCEPT !.pending_deliveries = WithoutMarker(@, asin)]]
         ELSE [result |-> TRUE, history |-> h]

\* variant: the marker is deleted whatever the answer
is_delivery_pending_AlwaysClears(h, asin, current_stock) ==
    IF asin \notin DOMAIN h.pending_deliveries
    THEN [result |-> FALSE, history |-> h]
    ELSE [result |-> current_stock <= h.pending_deliveries[asin],
          history |-> [h EXCEPT !.pending_deliveries = WithoutMarker(@, asin)]]

\* is_delivery_pending returns a bool and may delete the marker
is_delivery_pending(h, asin, current_stock) ==
    IF asin \notin DOMAIN h.pending_deliveries
    THEN [result |-> FALSE, history |-> h]
    ELSE IF current_stock > h.pending_deliveries[asin]
         THEN [result |-> FALSE,
               history |-> [h EXCEPT !.pending_deliveries = WithoutMarker(@, asin)]]
         ELSE [result |-> TRUE, history |-> h]

clear_pending_delivery(h, asin) ==
    [h EXCEPT !.pending_deliveries = WithoutMarker(@, asin)]

\* ----------------------------------------------------------- order_service.py
\* variant: nothing is read back
_load_history_Nothing(f) == EmptyHistory

\* _load_history: only pending_deliveries is read back; a file that does not
\* parse gives an empty history
_load_history(f) ==
    IF f.kind = "json"
    THEN [orders |-> <<>>, pending_deliveries |-> f.pending_deliveries]
    ELSE EmptyHistory

\* _load_history catches json.JSONDecodeError and IOError only: a file that
\* holds valid JSON other than an object ("not_object": data.get raises
\* AttributeError) or bytes that are not UTF-8 ("not_utf8": UnicodeDecodeError)
\* lets the exception leave OrderService.__init__
_load_history_raises(f) == f.kind \in {"not_object", "not_utf8"}

LastN(s, n) == IF Len(s) <= n THEN s ELSE SubSeq(s, Len(s) - n + 1, Len(s))

\* _save_history: outcome "ok" writes the file; an IOError is caught and
\* logged, leaving the old file ("unchanged": mkdir or open failed) or a
\* truncated one ("truncated": the write failed after open(..., "w"))
_save_history(h, f, outcome) ==
    CASE outcome = "ok" ->
            [kind |-> "json",
             orders |-> LastN(h.orders, HistoryCap),
             pending_deliveries |-> h.pending_deliveries]
      [] outcome = "unchanged" -> f
      [] OTHER -> [kind |-> "corrupt", orders |-> <<>>, pending_deliveries |-> EmptyMap]

SaveOutcomes == {"ok", "unchanged", "truncated"}

\* variant: the pending delivery is checked before the daily limit
can_place_order_PendingFirst(h, s, product, today) ==
    LET p == is_delivery_pending(h, product.amazon_asin, product.stock_amount) IN
    IF p.result
    THEN [allowed |-> FALSE, reason |-> "delivery_pending", history |-> p.history]
    ELSE IF count_orders_today(p.history, today) >= s.max_orders_per_day
         THEN [allowed |-> FALSE, reason |-> "daily_limit", history |-> p.history]
         ELSE IF product.amazon_asin = NoAsin
              THEN [allowed |-> FALSE, reason |-> "no_asin", history |-> p.history]
              ELSE [allowed |-> TRUE, reason |-> "OK", history |-> p.history]

can_place_order(h, s, product, today) ==
    IF count_orders_today(h, today) >= s.max_orders_per_day
    THEN [allowed |-> FALSE, reason |-> "daily_limit", history |-> h]
    ELSE LET p == is_delivery_pending(h, product.amazon_asin, product.stock_amount) IN
         IF p.result
         THEN [allowed |-> FALSE, reason |-> "delivery_pending", history |-> p.history]
         ELSE IF product.amazon_asin = NoAsin
              THEN [allowed |-> FALSE, reason |-> "no_asin", history |-> p.history]
              ELSE [allowed |-> TRUE, reason |-> "OK", history |-> p.history]

\* _notify_order: nothing unless notify_on_order; otherwise one Home Assistant
\* notification of the given kind.  hass.send_notification swallows
\* HomeAssistantError; any other exception leaves _notify_order ("raises").
\* The Telegram branch reads product.amazon_order_unit, which Product does
\* not have: the AttributeError is caught and logged, so no Telegram call
\* is ever made from here.
_notify_order(s, kind, raises) ==
    IF ~s.notify_on_order
    THEN [notified |-> <<>>, raised |-> FALSE]
    ELSE [notified |-> <<kind>>, raised |-> raises]

\* what the fulfilment call of a mode can do: hass returns True ("ok"),
\* returns False ("fail") or lets an exception through ("raise")
FulfilOutcomes(mode) ==
    IF mode \in {"voice_order", "shopping_list"} THEN {"ok", "fail", "raise"} ELSE {"none"}

ReplaceLast(seq, x) == [seq EXCEPT ![Len(seq)] = x]

\* the except-branch of process_order: mark_failed(str(e)) on the order object
\* (which is also the ledger's entry when it was already added), then the
\* failure notification, whose own exception leaves process_order
OrderExceptHandler(h, f, s, order, added, action, saved, notified, n2) ==
    LET failed == mark_failed(order, "exception")
        n == _notify_order(s, "failed", n2)
    IN [history |-> IF added THEN [h EXCEPT !.orders = ReplaceLast(@, failed)] ELSE h,
        file |-> f,
        order |-> failed,
        action |-> action,
        saved |-> saved,
        notified |-> notified \o n.notified,
        raised |-> n.raised]

process_order(h, f, s, product, today, fulfil, save, n1, n2) ==
    LET order == OrderRequest(product, today)
        c == can_place_order(h, s, product, today)
    IN
    IF ~c.allowed
    THEN [history |-> c.history, file |-> f,
          order |-> [order EXCEPT !.status = "skipped", !.error_message = c.reason],
          action |-> "none", saved |-> "none", notified |-> <<>>, raised |-> FALSE]
    ELSE IF s.dry_run
    THEN LET n == _notify_order(s, "dry_run", n1) IN
         [history |-> c.history, file |-> f,
          order |-> [order EXCEPT !.status = "pending", !.error_message = "dry_run"],
          action |-> "none", saved |-> "none", notified |-> n.notified, raised |-> n.raised]
    ELSE
    LET viaHass == s.mode \in {"voice_order", "shopping_list"}
        success == IF viaHass THEN fulfil = "ok" ELSE s.mode \in {"cart_link", "notify_only"}
        action == IF s.mode \in {"cart_link", "voice_order", "shopping_list", "notify_only"}
                  THEN s.mode ELSE "none"
        order1 == CASE s.mode = "cart_link" -> [order EXCEPT !.error_message = "cart_link_sent"]
                    [] s.mode = "notify_only" -> [order EXCEPT !.error_message = "notify_only"]
                    [] OTHER -> order
    IN
    IF viaHass /\ fulfil = "raise"
    THEN OrderExceptHandler(c.history, f, s, order1, FALSE, action, "none", <<>>, n2)
    ELSE IF success
    THEN LET order2 == mark_success(order1)
             h2 == add_order(
                     mark_pending_delivery(c.history, product.amazon_asin, product.stock_amount),
                     order2)
             f2 == _save_history(h2, f, save)
             n == _notify_order(s, "order", n1)
         IN IF n.raised
            THEN OrderExceptHandler(h2, f2, s, order2, TRUE, action, save, n.notified, n2)
            ELSE [history |-> h2, file |-> f2, order |-> order2,
                  action |-> action, saved |-> save, notified |-> n.notified,
                  raised |-> FALSE]
    ELSE LET order2 == mark_failed(order1, "order_failed")
             n == _notify_order(s, "failed", n1)
         IN IF n.raised
            THEN OrderExceptHandler(c.history, f, s, order2, FALSE, action, "none",
                                    n.notified, n2)
            ELSE [history |-> c.history, file |-> f, order |-> order2,
                  action |-> action, saved |-> "none", notified |-> n.notified,
                  raised |-> FALSE]

\* ----------------------------------------------------------- telegram_client.py
\* TrackedMessage as send_order_notification creates it.  product_id,
\* product_name, unit, min_stock, chat_id and created_at are fixed per asin
\* and never read by a decision; they are left out.
TrackedMessage(message_id, quantity, cart_url, current_stock) ==
    [message_id |-> message_id,
     quantity |-> quantity,
     cart_url |-> cart_url,
     current_stock |-> current_stock,
     ordered |-> FALSE,
     ordered_at |-> NoTime,
     delivered |-> FALSE,
     delivered_at |-> NoTime]

\* _create_amazon_cart_url: the link carries the asin and the quantity
_create_amazon_cart_url(asin, quantity) == <<asin, quantity>>

NoMessagesFile == [kind |-> "absent", messages |-> EmptyMap]

\* tracked_messages[asin] = msg
WithMessage(tr, asin, msg) ==
    [a \in (DOMAIN tr) \cup {asin} |-> IF a = asin THEN msg ELSE tr[a]]

\* the loop of _load_tracked_messages over the entries of the file, in file
\* order: each entry is converted and stored as it is read; the first entry
\* that does not convert (a field missing or unknown to TrackedMessage, a
\* date that fromisoformat rejects) raises, which ends the loop and keeps
\* what was stored before it
RECURSIVE LoadEntries(_, _)
LoadEntries(entries, tr) ==
    IF entries = <<>> THEN tr
    ELSE IF ~Head(entries).valid THEN tr
    ELSE LoadEntries(Tail(entries), WithMessage(tr, Head(entries).asin, Head(entries).msg))

\* _load_tracked_messages: a missing file or one that does not parse leaves
\* tracked_messages empty; every exception is caught and logged.  A file
\* the client wrote itself ("json") holds tracked_messages as saved; a file
\* from elsewhere ("entries") is read entry by entry
_load_tracked_messages(f) ==
    CASE f.kind = "json" -> f.messages
      [] f.kind = "entries" -> LoadEntries(f.entries, EmptyMap)
      [] OTHER -> EmptyMap

\* _save_tracked_messages: every exception is caught and logged
_save_tracked_messages(tr, f, outcome) ==
    CASE outcome = "ok" -> [kind |-> "json", messages |-> tr]
      [] outcome = "unchanged" -> f
      [] OTHER -> [kind |-> "corrupt", messages |-> EmptyMap]

\* one request to the Bot API (or one call of a hook), as the chat sees it
Call(api, message_id, ok) == [api |-> api, message_id |-> message_id, ok |-> ok]

\* send_message: None when disabled or when the request fails, else the id
\* Telegram gave the new message
send_message(en, last_id, ok) ==
    IF ~en
    THEN [message_id |-> NoMessage, calls |-> <<>>, last_id |-> last_id]
    ELSE IF ok
    THEN [message_id |-> last_id + 1,
          calls |-> <<Call("sendMessage", last_id + 1, TRUE)>>,
          last_id |-> last_id + 1]
    ELSE [message_id |-> NoMessage,
          calls |-> <<Call("sendMessage", NoMessage, FALSE)>>,
          last_id |-> last_id]

\* edit_message: True without a request when disabled
edit_message(en, message_id, ok) ==
    IF ~en
    THEN [ok |-> TRUE, calls |-> <<>>]
    ELSE [ok |-> ok, calls |-> <<Call("editMessageText", message_id, ok)>>]

\* delete_message: True without a request when disabled
delete_message(en, message_id, ok) ==
    IF ~en
    THEN [ok |-> TRUE, calls |-> <<>>]
    ELSE [ok |-> ok, calls |-> <<Call("deleteMessage", message_id, ok)>>]

\* variant: the callback query is left unanswered
answer_callback_query_Nothing(ok) == [calls |-> <<>>]

\* answer_callback_query: its result is ignored by every caller; ok tells the
\* success toast from the error toast
answer_callback_query(ok) ==
    [calls |-> <<Call("answerCallbackQuery", NoMessage, ok)>>]

\* variant: the content goes out as a new message
_update_message_content_SendsAgain(tr, en, asin, edit) ==
    IF asin \notin DOMAIN tr
    THEN [ok |-> FALSE, calls |-> <<>>]
    ELSE [ok |-> edit, calls |-> <<Call("sendMessage", tr[asin].message_id, edit)>>]

_update_message_content(tr, en, asin, edit) ==
    IF asin \notin DOMAIN tr
    THEN [ok |-> FALSE, calls |-> <<>>]
    ELSE edit_message(en, tr[asin].message_id, edit)

\* variant: the refreshed entry starts over as not ordered
update_stock_ResetsOrdered(tr, f, en, asin, new_stock, edit, save) ==
    IF asin \notin DOMAIN tr
    THEN [tracked |-> tr, file |-> f, saved |-> "none", result |-> FALSE, calls |-> <<>>]
    ELSE IF tr[asin].current_stock = new_stock
    THEN [tracked |-> tr, file |-> f, saved |-> "none", result |-> TRUE, calls |-> <<>>]
    ELSE LET tr2 == [tr EXCEPT ![asin].current_stock = new_stock,
                               ![asin].ordered = FALSE,
                               ![asin].ordered_at = NoTime]
             e == _update_message_content(tr2, en, asin, edit)
         IN [tracked |-> tr2,
             file |-> _save_tracked_messages(tr2, f, save), saved |-> save,
             result |-> e.ok,
             calls |-> e.calls]

update_stock(tr, f, en, asin, new_stock, edit, save) ==
    IF asin \notin DOMAIN tr
    THEN [tracked |-> tr, file |-> f, saved |-> "none", result |-> FALSE, calls |-> <<>>]
    ELSE IF tr[asin].current_stock = new_stock
    THEN [tracked |-> tr, file |-> f, saved |-> "none", result |-> TRUE, calls |-> <<>>]
    ELSE LET tr2 == [tr EXCEPT ![asin].current_stock = new_stock]
             e == _update_message_content(tr2, en, asin, edit)
         IN [tracked |-> tr2,
             file |-> _save_tracked_messages(tr2, f, save), saved |-> save,
             result |-> e.ok,
             calls |-> e.calls]

WithoutMessage(tr, asin) ==
    [a \in (DOMAIN tr) \ {asin} |-> tr[a]]

\* variant: an entry that is already ordered is brought up to date like one
\* that is not
send_order_notification_EditsOrdered(tr, f, en, last_id, asin, quantity, current_stock, cart_url, send, edit, save) ==
    IF asin \in DOMAIN tr
    THEN LET tr2 == [tr EXCEPT ![asin].current_stock = current_stock,
                               ![asin].quantity = quantity]
             e == _update_message_content(tr2, en, asin, edit)
         IN [tracked |-> tr2, file |-> f, saved |-> "none", last_id |-> last_id,
             result |-> TRUE, calls |-> e.calls]
    ELSE LET m == send_message(en, last_id, send) IN
         IF m.message_id # NoMessage
         THEN LET tr2 == WithMessage(tr, asin,
                            TrackedMessage(m.message_id, quantity, cart_url, current_stock))
              IN [tracked |-> tr2,
                  file |-> _save_tracked_messages(tr2, f, save), saved |-> save,
                  last_id |-> m.last_id, result |-> TRUE, calls |-> m.calls]
         ELSE [tracked |-> tr, file |-> f, saved |-> "none", last_id |-> m.last_id,
               result |-> FALSE, calls |-> m.calls]

send_order_notification(tr, f, en, last_id, asin, quantity, current_stock, cart_url, send, edit, save) ==
    IF asin \in DOMAIN tr /\ tr[asin].ordered /\ ~tr[asin].delivered
    THEN \* already ordered, not yet delivered: only the stock is refreshed
         LET u == update_stock(tr, f, en, asin, current_stock, edit, save) IN
         [tracked |-> u.tracked, file |-> u.file, saved |-> u.saved, last_id |-> last_id,
          result |-> u.result, calls |-> u.calls]
    ELSE IF asin \in DOMAIN tr /\ ~tr[asin].ordered
    THEN \* not yet ordered: the existing message is brought up to date
         LET tr2 == [tr EXCEPT ![asin].current_stock = current_stock,
                               ![asin].quantity = quantity]
             e == _update_message_content(tr2, en, asin, edit)
         IN [tracked |-> tr2, file |-> f, saved |-> "none", last_id |-> last_id,
             result |-> TRUE, calls |-> e.calls]
    ELSE \* a new message with buttons
         LET m == send_message(en, last_id, send) IN
         IF m.message_id # NoMessage
         THEN LET tr2 == WithMessage(tr, asin,
                            TrackedMessage(m.message_id, quantity, cart_url, current_stock))
              IN [tracked |-> tr2,
                  file |-> _save_tracked_messages(tr2, f, save), saved |-> save,
                  last_id |-> m.last_id, result |-> TRUE, calls |-> m.calls]
         ELSE [tracked |-> tr, file |-> f, saved |-> "none", last_id |-> m.last_id,
               result |-> FALSE, calls |-> m.calls]

\* on_ordered_callback / on_delivered_callback: "unset", or set to a callable
\* that returns ("ok") or raises ("raises"; caught and logged)
Hooks == {"unset", "ok", "raises"}

HookCall(name, hook) ==
    IF hook = "unset" THEN <<>> ELSE <<Call(name, NoMessage, hook = "ok")>>

\* variant: the entry is marked without a timestamp
mark_as_ordered_NoTimestamp(tr, f, en, asin, now, edit, save, hook) ==
    IF asin \notin DOMAIN tr
    THEN [tracked |-> tr, file |-> f, saved |-> "none", result |-> FALSE, calls |-> <<>>]
    ELSE LET tr2 == [tr EXCEPT ![asin].ordered = TRUE]
             e == _update_message_content(tr2, en, asin, edit)
         IN [tracked |-> tr2,
             file |-> _save_tracked_messages(tr2, f, save), saved |-> save,
             result |-> e.ok,
             calls |-> e.calls \o
                       (IF e.ok THEN HookCall("on_ordered_callback", hook) ELSE <<>>)]

mark_as_ordered(tr, f, en, asin, now, edit, save, hook) ==
    IF asin \notin DOMAIN tr
    THEN [tracked |-> tr, file |-> f, saved |-> "none", result |-> FALSE, calls |-> <<>>]
    ELSE LET tr2 == [tr EXCEPT ![asin].ordered = TRUE, ![asin].ordered_at = now]
             e == _update_message_content(tr2, en, asin, edit)
         IN [tracked |-> tr2,
             file |-> _save_tracked_messages(tr2, f, save), saved |-> save,
             result |-> e.ok,
             calls |-> e.calls \o
                       (IF e.ok THEN HookCall("on_ordered_callback", hook) ELSE <<>>)]

\* variant: the original notification stays in the chat
mark_as_delivered_KeepsMessage(tr, f, en, last_id, asin, now, send, delete, save, hook) ==
    IF asin \notin DOMAIN tr
    THEN [tracked |-> tr, file |-> f, saved |-> "none", last_id |-> last_id,
          result |-> FALSE, calls |-> <<>>]
    ELSE LET m == send_message(en, last_id, send)
             tr2 == WithoutMessage(tr, asin)
         IN [tracked |-> tr2,
             file |-> _save_tracked_messages(tr2, f, save), saved |-> save,
             last_id |-> m.last_id,
             result |-> TRUE,
             calls |-> m.calls \o HookCall("on_delivered_callback", hook)]

\* variant: the exception of the delivered hook leaves mark_as_delivered
\* before the entry is removed
mark_as_delivered_HookAborts(tr, f, en, last_id, asin, now, send, delete, save, hook) ==
    IF asin \notin DOMAIN tr
    THEN [tracked |-> tr, file |-> f, saved |-> "none", last_id |-> last_id,
          result |-> FALSE, calls |-> <<>>]
    ELSE LET m == send_message(en, last_id, send)
             d == delete_message(en, tr[asin].message_id, delete)
             tr2 == WithoutMessage(tr, asin)
         IN IF hook = "raises"
            THEN [tracked |-> [tr EXCEPT ![asin].delivered = TRUE, ![asin].delivered_at = now],
                  file |-> f, saved |-> "none", last_id |-> m.last_id, result |-> FALSE,
                  calls |-> m.calls \o d.calls \o HookCall("on_delivered_callback", hook)]
            ELSE [tracked |-> tr2,
                  file |-> _save_tracked_messages(tr2, f, save), saved |-> save,
                  last_id |-> m.last_id,
                  result |-> TRUE,
                  calls |-> m.calls \o d.calls \o HookCall("on_delivered_callback", hook)]

mark_as_delivered(tr, f, en, last_id, asin, now, send, delete, save, hook) ==
    IF asin \notin DOMAIN tr
    THEN [tracked |-> tr, file |-> f, saved |-> "none", last_id |-> last_id, result |-> FALSE,
          calls |-> <<>>]
    ELSE LET m == send_message(en, last_id, send)
             d == delete_message(en, tr[asin].message_id, delete)
             tr2 == WithoutMessage(tr, asin)
         IN [tracked |-> tr2,
             file |-> _save_tracked_messages(tr2, f, save), saved |-> save,
             last_id |-> m.last_id,
             result |-> TRUE,
             calls |-> m.calls \o d.calls \o HookCall("on_delivered_callback", hook)]

\* variant: the entry is dropped but the notification stays in the chat
cancel_order_NoDelete(tr, f, en, asin, delete, save) ==
    IF asin \notin DOMAIN tr
    THEN [tracked |-> tr, file |-> f, saved |-> "none", result |-> FALSE, calls |-> <<>>]
    ELSE LET tr2 == WithoutMessage(tr, asin)
         IN [tracked |-> tr2,
             file |-> _save_tracked_messages(tr2, f, save), saved |-> save,
             result |-> TRUE,
             calls |-> <<>>]

cancel_order(tr, f, en, asin, delete, save) ==
    IF asin \notin DOMAIN tr
    THEN [tracked |-> tr, file |-> f, saved |-> "none", result |-> FALSE, calls |-> <<>>]
    ELSE LET d == delete_message(en, tr[asin].message_id, delete)
             tr2 == WithoutMessage(tr, asin)
         IN [tracked |-> tr2,
             file |-> _save_tracked_messages(tr2, f, save), saved |-> save,
             result |-> TRUE,
             calls |-> d.calls]

\* the history variable `chat` for a tracker that an earlier run left: the
\* message of every entry is in the chat
ChatOf(tr) ==
    [m \in {tr[a].message_id : a \in DOMAIN tr} |->
        CHOOSE a \in DOMAIN tr : tr[a].message_id = m]

\* the history variable `chat` after one request: sendMessage made by
\* send_order_notification puts the new order notification into the chat, a
\* deleteMessage that succeeds takes its message out
ChatAfterCall(ch, op, asin, c) ==
    IF c.api = "sendMessage" /\ c.ok /\ op = "send_order_notification"
    THEN [m \in (DOMAIN ch) \cup {c.message_id} |->
            IF m = c.message_id THEN asin ELSE ch[m]]
    ELSE IF c.api = "deleteMessage" /\ c.ok
    THEN [m \in (DOMAIN ch) \ {c.message_id} |-> ch[m]]
    ELSE ch

RECURSIVE ChatAfter(_, _, _, _)
ChatAfter(ch, op, asin, calls) ==
    IF calls = <<>> THEN ch
    ELSE ChatAfter(ChatAfterCall(ch, op, asin, Head(calls)), op, asin, Tail(calls))

\* callback_data of a button click: "ordered:<asin>", "delivered:<asin>",
\* "cancel:<asin>", "noop", or anything else ("other")
CallbackData ==
    [kind : {"ordered", "delivered", "cancel"}, asin : TelegramAsins]
      \cup [kind : {"noop", "other"}, asin : {NoAsin}]

\* the outcomes of the calls one Telegram operation makes
Transport ==
    [send : BOOLEAN, edit : BOOLEAN, delete : BOOLEAN, save : SaveOutcomes, hook : Hooks]

_process_callback(tr, f, en, last_id, data, now, o) ==
    CASE data.kind = "ordered" ->
            LET r == mark_as_ordered(tr, f, en, data.asin, now, o.edit, o.save, o.hook) IN
            [tracked |-> r.tracked, file |-> r.file, saved |-> r.saved, last_id |-> last_id,
             result |-> r.result,
             calls |-> r.calls \o answer_callback_query(r.result).calls]
      [] data.kind = "delivered" ->
            LET r == mark_as_delivered(tr, f, en, last_id, data.asin, now,
                                       o.send, o.delete, o.save, o.hook) IN
            [tracked |-> r.tracked, file |-> r.file, saved |-> r.saved, last_id |-> r.last_id,
             result |-> r.result,
             calls |-> r.calls \o answer_callback_query(r.result).calls]
      [] data.kind = "cancel" ->
            LET r == cancel_order(tr, f, en, data.asin, o.delete, o.save) IN
            [tracked |-> r.tracked, file |-> r.file, saved |-> r.saved, last_id |-> last_id,
             result |-> r.result,
             calls |-> r.calls \o answer_callback_query(r.result).calls]
      [] data.kind = "noop" ->
            [tracked |-> tr, file |-> f, saved |-> "none", last_id |-> last_id,
             result |-> FALSE, calls |-> answer_callback_query(TRUE).calls]
      [] OTHER ->
            [tracked |-> tr, file |-> f, saved |-> "none", last_id |-> last_id,
             result |-> FALSE, calls |-> <<>>]

\* ------------------------------------------------------------ grocy_client.py
\* get_products_below_min_stock: the products whose stock is below a positive
\* minimum and that carry an ASIN, in catalogue order
BelowMin(st, units, i) ==
    LET a == AsinOrder[i] IN
    IF st[a] >= StockMin \/ StockMin <= 0
    THEN <<>>
    ELSE LET p == Product(a, st[a], StockMin, units[a]) IN
         IF needs_reorder(p) THEN <<p>> ELSE <<>>

RECURSIVE ProductsFrom(_, _, _)
ProductsFrom(st, units, i) ==
    IF i > Len(AsinOrder) THEN <<>>
    ELSE BelowMin(st, units, i) \o ProductsFrom(st, units, i + 1)

get_products_below_min_stock(st, units) == ProductsFrom(st, units, 1)

\* ------------------------------------------------------------------- actions
IO(op) ==
    [op |-> op, asin |-> NoAsin, stock |-> 0, action |-> "none", saved |-> "none",
     notified |-> <<>>, raised |-> FALSE, quantity |-> 0, before |-> "none",
     result |-> FALSE, calls |-> <<>>, hook |-> "unset"]

\* a thread that is inside no TelegramClient call
Outside ==
    [op |-> "none", asin |-> NoAsin, stage |-> "none", quantity |-> 0, stock |-> 0,
     message_id |-> NoMessage]

\* the polling thread's position in _polling_loop: pc is "none" (no thread),
\* "while" (at the loop test), "get" (inside requests.get), "for" (inside the
\* loop over the updates of a response), "sleep" (inside time.sleep) or
\* "returned"; offset is the offset of its last request, last the way that
\* request ended, slept the seconds of time.sleep since it ended, updates the
\* updates of the response not yet handled, at_stop the position the thread
\* was at when stop_polling was last called, current whether it is
\* self._polling_thread, handled (a history field) the ids of the updates it
\* has passed to _process_callback
Polling(at) ==
    [pc |-> at, offset |-> 0, last |-> "none", slept |-> 0, updates |-> <<>>,
     at_stop |-> "none", current |-> FALSE, handled |-> {}]

Threads == 1..MaxThreads

NotPolling == [t \in Threads |-> Polling("none")]

NoFile == [kind |-> "absent", orders |-> <<>>, pending_deliveries |-> EmptyMap]

NoStock == EmptyMap

Settings ==
    [max_orders_per_day : 0..MaxLimit,
     dry_run : BOOLEAN,
     mode : InitModes,
     notify_on_order : BOOLEAN]

Init ==
    /\ settings \in Settings
    /\ day = 0
    /\ stock = NoStock
    /\ file = NoFile
    /\ history = _load_history(NoFile)
    /\ pc = "idle"
    /\ todo = <<>>
    /\ orders = <<>>
    /\ io = IO("init")
    /\ placed = EmptyMap
    /\ placed_today = 0
    /\ known = {}
    /\ enabled = FALSE
    /\ messages_file = NoMessagesFile
    /\ tracked_messages = _load_tracked_messages(messages_file)
    /\ last_message_id = 0
    /\ chat = EmptyMap
    /\ faults = 0
    /\ task = Outside
    /\ listener = Outside
    /\ polling_active = FALSE
    /\ last_update_id = 0
    /\ poll = NotPolling

\* midnight passes (between two evaluation cycles)
NextDay ==
    /\ pc = "idle"
    /\ day < MaxDay
    /\ day' = day + 1
    /\ io' = IO("next_day")
    /\ placed_today' = 0
    /\ UNCHANGED <<settings, stock, history, file, pc, todo, orders, placed, known,
                   telegramVars, pollingVars>>

\* the history variable `placed` after the stock amounts st were fetched: an
\* asin whose stock is now greater than at its last placed order is dropped
Observed(pl, st) == [a \in {x \in DOMAIN pl : st[x] <= pl[x]} |-> pl[a]]

\* check_and_order up to the call of process_products: fetch Grocy's stock
\* (any amounts) and keep the products below minimum stock; return when
\* there are none
CheckAndOrder ==
    /\ pc = "idle"
    /\ \E st \in [ASINS -> 0..MaxStock] :
          LET products == get_products_below_min_stock(st, UnitsOf) IN
          /\ stock' = st
          /\ todo' = products
          /\ pc' = IF products = <<>> THEN "return" ELSE "batch"
          /\ placed' = Observed(placed, st)
          /\ placed_today' = placed_today
          /\ known' = known \cap DOMAIN placed'
    /\ orders' = <<>>
    /\ io' = IO("check_and_order")
    /\ UNCHANGED <<settings, day, history, file, telegramVars, pollingVars>>

\* the history variable `placed` after process_order(product) returned r
PlacedAfter(product, r) ==
    LET a == product.amazon_asin IN
    IF Len(r.history.orders) > Len(history.orders)
    THEN [x \in (DOMAIN placed) \cup {a} |->
            IF x = a THEN product.stock_amount ELSE placed[x]]
    ELSE placed

\* the history variable `placed_today` after process_order returned r
PlacedTodayAfter(r) ==
    IF Len(r.history.orders) > Len(history.orders) /\ placed_today <= MaxLimit
    THEN placed_today + 1
    ELSE placed_today

\* the outcomes of the calls process_order makes, as far as it makes them:
\* fulfil (the fulfilment call), save (_save_history), n1 (the first
\* _notify_order raises), n2 (the except-branch's _notify_order raises)
Raises(s, reached) == IF s.notify_on_order /\ reached THEN BOOLEAN ELSE {FALSE}

Outcomes(s, allowed) ==
    IF ~allowed
    THEN {[fulfil |-> "none", save |-> "ok", n1 |-> FALSE, n2 |-> FALSE]}
    ELSE IF s.dry_run
    THEN {[fulfil |-> "none", save |-> "ok", n1 |-> b, n2 |-> FALSE] : b \in Raises(s, TRUE)}
    ELSE {o \in [fulfil : FulfilOutcomes(s.mode), save : SaveOutcomes,
                 n1 : BOOLEAN, n2 : BOOLEAN] :
            LET success == o.fulfil = "ok" \/ s.mode \in {"cart_link", "notify_only"} IN
            /\ o.save \in (IF success THEN SaveOutcomes ELSE {"ok"})
            /\ o.n1 \in Raises(s, o.fulfil # "raise")
            /\ o.n2 \in Raises(s, o.fulfil = "raise" \/ o.n1)}

\* one iteration of process_products' loop: process_order for the next product
ProcessNext ==
    /\ pc = "batch"
    /\ todo # <<>>
    /\ LET product == Head(todo) IN
       IF ~needs_reorder(product)
       THEN /\ todo' = Tail(todo)
            /\ io' = [IO("skip_product") EXCEPT !.asin = product.amazon_asin,
                                                !.stock = product.stock_amount]
            /\ UNCHANGED <<history, file, pc, orders, placed, placed_today, known>>
       ELSE \E o \in Outcomes(settings,
                               can_place_order(history, settings, product, day).allowed) :
            LET r == process_order(history, file, settings, product, day,
                                   o.fulfil, o.save, o.n1, o.n2)
            IN /\ history' = r.history
               /\ file' = r.file
               /\ io' = [IO("process_order") EXCEPT
                            !.asin = product.amazon_asin, !.stock = product.stock_amount,
                            !.action = r.action, !.saved = r.saved,
                            !.notified = r.notified,
                            !.raised = r.raised]
               /\ placed' = PlacedAfter(product, r)
               /\ placed_today' = PlacedTodayAfter(r)
               /\ known' = (known \cap DOMAIN placed') \cup
                              (IF Len(r.history.orders) > Len(history.orders)
                               THEN {product.amazon_asin} ELSE {})
               /\ IF r.raised
                  THEN \* the exception leaves process_products; check_and_order logs it
                       /\ pc' = "return"
                       /\ todo' = <<>>
                       /\ orders' = <<>>
                  ELSE /\ todo' = Tail(todo)
                       /\ orders' = Append(orders, r.order)
                       /\ pc' = pc
    /\ UNCHANGED <<settings, day, stock, telegramVars, pollingVars>>

\* check_and_order returns to the scheduler: after process_products returned
\* and the summary was logged, when no product was below minimum, or when an
\* exception was caught
FinishCycle ==
    /\ pc \in {"batch", "return"}
    /\ todo = <<>>
    /\ pc' = "idle"
    /\ stock' = NoStock
    /\ orders' = <<>>
    /\ io' = IO("idle")
    /\ UNCHANGED <<settings, day, history, file, todo, placed, placed_today, known, telegramVars, pollingVars>>

\* the process stops between two evaluation cycles and is started again:
\* OrderService.__init__ loads the history file, TelegramClient.__init__ the
\* messages file
Restart ==
    /\ pc = "idle"
    /\ history' = _load_history(file)
    /\ tracked_messages' = _load_tracked_messages(messages_file)
    /\ io' = IO("restart")
    /\ known' = {a \in known : a \in DOMAIN history'.pending_deliveries
                               /\ history'.pending_deliveries[a] = placed[a]}
    /\ UNCHANGED <<settings, day, stock, file, pc, todo, orders, placed, placed_today,
                   enabled, messages_file, last_message_id, chat, faults, task, listener, pollingVars>>

Next ==
    \/ NextDay
    \/ CheckAndOrder
    \/ ProcessNext
    \/ FinishCycle
    \/ Restart

Spec == Init /\ [][Next]_vars

\* ---------------------------------------------------------- Telegram actions
\* the number of failing requests and file writes in the outcomes o (a hook
\* that raises is the registered callable's behaviour, not a failing call)
Faults(o) ==
    (IF o.send THEN 0 ELSE 1) + (IF o.edit THEN 0 ELSE 1) + (IF o.delete THEN 0 ELSE 1)
      + (IF o.save = "ok" THEN 0 ELSE 1)

\* the outcomes of an operation that makes the calls named in `made`: a call
\* it does not make is given its first outcome, at most MaxFaults calls of a
\* behaviour fail, and Telegram hands out no message id beyond MaxMessages
Outcome(made) ==
    {o \in Transport :
        /\ ("send" \in made \/ o.send)
        /\ ("edit" \in made \/ o.edit)
        /\ ("delete" \in made \/ o.delete)
        /\ ("save" \in made \/ o.save = "ok")
        /\ ("hook" \in made \/ o.hook = "unset")
        /\ faults + Faults(o) <= MaxFaults
        /\ (o.send /\ "send" \in made => last_message_id < MaxMessages)}

\* an initial state of the process with a Telegram client: the history file
\* is absent or was left by an earlier run that placed an order
PlacedFile(asin, stock_amount) ==
    LET product == Product(asin, stock_amount, StockMin, UnitsOf[asin])
        h == add_order(mark_pending_delivery(EmptyHistory, asin, stock_amount),
                       mark_success(OrderRequest(product, 0)))
    IN _save_history(h, NoFile, "ok")

InitTelegram ==
    /\ settings \in {x \in Settings : x.max_orders_per_day = MaxLimit /\ ~x.dry_run
                                     /\ x.mode = "notify_only" /\ x.notify_on_order}
    /\ day = 0
    /\ stock = NoStock
    /\ file \in {NoFile, PlacedFile(AsinOrder[1], 0)}
    /\ history = _load_history(file)
    /\ pc = "idle"
    /\ todo = <<>>
    /\ orders = <<>>
    /\ io = IO("init")
    /\ placed = EmptyMap
    /\ placed_today = 0
    /\ known = {}
    /\ enabled \in BOOLEAN
    /\ messages_file = NoMessagesFile
    /\ tracked_messages = _load_tracked_messages(messages_file)
    /\ last_message_id = 0
    /\ chat = EmptyMap
    /\ faults = 0
    /\ task = Outside
    /\ listener = Outside
    /\ polling_active = FALSE
    /\ last_update_id = 0
    /\ poll = NotPolling

\* the lifecycle state of asin's entry
StateOf(tr, asin) ==
    IF asin \notin DOMAIN tr THEN "absent"
    ELSE IF tr[asin].ordered THEN "ordered" ELSE "created"

\* io records the call (op, asin, quantity, stock), the state the entry was in
\* before it, its result and the requests it made
TelegramStep(op, asin, quantity, current_stock, r, o) ==
    /\ tracked_messages' = r.tracked
    /\ messages_file' = r.file
    /\ faults' = faults + Faults(o)
    /\ chat' = ChatAfter(chat, op, asin, r.calls)
    /\ io' = [IO(op) EXCEPT !.asin = asin, !.quantity = quantity,
                            !.stock = current_stock,
                            !.before = StateOf(tracked_messages, asin),
                            !.saved = r.saved, !.hook = o.hook,
                            !.result = r.result, !.calls = r.calls]
    /\ UNCHANGED <<day, ledgerVars, enabled, task, listener>>

\* the calls send_order_notification makes for asin
SendMakes(asin, current_stock) ==
    IF asin \notin DOMAIN tracked_messages
       \/ (tracked_messages[asin].ordered /\ tracked_messages[asin].delivered)
    THEN IF enabled THEN {"send", "save"} ELSE {}
    ELSE IF ~tracked_messages[asin].ordered
    THEN IF enabled THEN {"edit"} ELSE {}
    ELSE IF tracked_messages[asin].current_stock = current_stock
    THEN {}
    ELSE IF enabled THEN {"edit", "save"} ELSE {"save"}

SendOrderNotification ==
    \E asin \in TelegramAsins, quantity \in 1..MaxQuantity, current_stock \in 0..MaxStock :
    \E o \in Outcome(SendMakes(asin, current_stock)) :
       LET r == send_order_notification(tracked_messages, messages_file, enabled,
                    last_message_id, asin, quantity, current_stock,
                    _create_amazon_cart_url(asin, quantity), o.send, o.edit, o.save)
       IN /\ TelegramStep("send_order_notification", asin, quantity, current_stock, r, o)
          /\ last_message_id' = r.last_id
          /\ UNCHANGED pollingVars

UpdateStock ==
    \E asin \in TelegramAsins, new_stock \in 0..MaxStock :
    \E o \in Outcome(IF asin \in DOMAIN tracked_messages
                        /\ tracked_messages[asin].current_stock # new_stock
                     THEN IF enabled THEN {"edit", "save"} ELSE {"save"}
                     ELSE {}) :
       LET r == update_stock(tracked_messages, messages_file, enabled, asin, new_stock,
                             o.edit, o.save)
       IN /\ TelegramStep("update_stock", asin, 0, new_stock, r, o)
          /\ last_message_id' = last_message_id
          /\ UNCHANGED pollingVars

\* the calls _process_callback makes for data
CallbackMakes(data) ==
    IF data.asin \notin DOMAIN tracked_messages
    THEN {}
    ELSE CASE data.kind = "ordered" -> {"edit", "save", "hook"}
           [] data.kind = "delivered" -> {"send", "delete", "save", "hook"}
           [] data.kind = "cancel" -> {"delete", "save"}
           [] OTHER -> {}

\* _polling_loop hands one callback query to _process_callback; polling only
\* runs on an enabled client
ProcessCallback ==
    /\ enabled
    /\ \E data \in CallbackData :
       \E o \in Outcome(CallbackMakes(data)) :
          LET r == _process_callback(tracked_messages, messages_file, enabled,
                                     last_message_id, data, day, o)
          IN /\ TelegramStep(data.kind, data.asin, 0, 0, r, o)
             /\ last_message_id' = r.last_id
          /\ UNCHANGED pollingVars

NextTelegram ==
    \/ NextDay
    \/ SendOrderNotification
    \/ UpdateStock
    \/ ProcessCallback
    \/ Restart

SpecTelegram == InitTelegram /\ [][NextTelegram]_vars

\* ------------------------------------------------------------- two threads
\* start_polling runs _polling_loop in a thread of its own, next to the
\* thread of the evaluation cycle; no lock guards tracked_messages or the
\* messages file.  Each TelegramClient call is taken in two steps, the part
\* up to the return of its first request to the Bot API and the part after
\* it, and the other thread may run in between.  Requests and writes succeed
\* here.
InitThreads ==
    /\ settings \in {x \in Settings : x.max_orders_per_day = MaxLimit /\ ~x.dry_run
                                     /\ x.mode = "notify_only" /\ x.notify_on_order}
    /\ day = 0
    /\ stock = NoStock
    /\ file = NoFile
    /\ history = _load_history(file)
    /\ pc = "idle"
    /\ todo = <<>>
    /\ orders = <<>>
    /\ io = IO("init")
    /\ placed = EmptyMap
    /\ placed_today = 0
    /\ known = {}
    /\ enabled = TRUE
    /\ messages_file = NoMessagesFile
    /\ tracked_messages = _load_tracked_messages(messages_file)
    /\ last_message_id = 0
    /\ chat = EmptyMap
    /\ faults = 0
    /\ task = Outside
    /\ listener = Outside
    /\ polling_active = FALSE
    /\ last_update_id = 0
    /\ poll = NotPolling

\* the thread enters the call op for asin and stops at `stage`
Inside(op, asin, stage, quantity, current_stock, message_id) ==
    [op |-> op, asin |-> asin, stage |-> stage, quantity |-> quantity,
     stock |-> current_stock, message_id |-> message_id]

\* update_stock up to its call of _update_message_content
BeginUpdateStock(op, asin, new_stock) ==
    IF asin \notin DOMAIN tracked_messages
       \/ tracked_messages[asin].current_stock = new_stock
    THEN /\ task' = Inside(op, asin, "return", 0, new_stock, NoMessage)
         /\ UNCHANGED <<tracked_messages, messages_file, last_message_id, chat>>
    ELSE /\ tracked_messages' = [tracked_messages EXCEPT ![asin].current_stock = new_stock]
         /\ messages_file' = _save_tracked_messages(tracked_messages', messages_file, "ok")
         /\ task' = Inside(op, asin, "edit", 0, new_stock, NoMessage)
         /\ UNCHANGED <<last_message_id, chat>>

\* the evaluation thread calls update_stock or send_order_notification; the
\* latter stops before _update_message_content or, for a new message, when
\* send_message returned the new message id
TaskBegin ==
    /\ task = Outside
    /\ \E asin \in TelegramAsins, quantity \in 1..MaxQuantity, current_stock \in 0..MaxStock :
          \/ BeginUpdateStock("update_stock", asin, current_stock)
          \/ /\ asin \in DOMAIN tracked_messages
             /\ tracked_messages[asin].ordered /\ ~tracked_messages[asin].delivered
             /\ BeginUpdateStock("send_order_notification", asin, current_stock)
          \/ /\ asin \in DOMAIN tracked_messages
             /\ ~tracked_messages[asin].ordered
             /\ tracked_messages' = [tracked_messages EXCEPT
                                        ![asin].current_stock = current_stock,
                                        ![asin].quantity = quantity]
             /\ task' = Inside("send_order_notification", asin, "edit", quantity,
                               current_stock, NoMessage)
             /\ UNCHANGED <<messages_file, last_message_id, chat>>
          \/ /\ IF asin \in DOMAIN tracked_messages
                THEN tracked_messages[asin].ordered /\ tracked_messages[asin].delivered
                ELSE TRUE
             /\ last_message_id < MaxMessages
             /\ LET m == send_message(enabled, last_message_id, TRUE) IN
                /\ last_message_id' = m.last_id
                /\ chat' = ChatAfter(chat, "send_order_notification", asin, m.calls)
                /\ task' = Inside("send_order_notification", asin, "track", quantity,
                                  current_stock, m.message_id)
             /\ UNCHANGED <<tracked_messages, messages_file>>
    /\ io' = [IO("task_begin") EXCEPT !.asin = task'.asin]
    /\ UNCHANGED <<day, ledgerVars, enabled, faults, listener, pollingVars>>

\* the rest of the evaluation thread's call
TaskEnd ==
    /\ task # Outside
    /\ CASE task.stage = "edit" ->
              LET e == _update_message_content(tracked_messages, enabled, task.asin, TRUE) IN
              /\ io' = [IO("task_end") EXCEPT !.asin = task.asin, !.calls = e.calls,
                                              !.result = e.ok]
              /\ UNCHANGED <<tracked_messages, messages_file>>
         [] task.stage = "track" ->
              /\ tracked_messages' =
                    WithMessage(tracked_messages, task.asin,
                                TrackedMessage(task.message_id, task.quantity,
                                               _create_amazon_cart_url(task.asin, task.quantity),
                                               task.stock))
              /\ messages_file' = _save_tracked_messages(tracked_messages', messages_file, "ok")
              /\ io' = [IO("task_end") EXCEPT !.asin = task.asin, !.result = TRUE]
         [] OTHER ->
              /\ io' = [IO("task_end") EXCEPT !.asin = task.asin]
              /\ UNCHANGED <<tracked_messages, messages_file>>
    /\ task' = Outside
    /\ UNCHANGED <<day, ledgerVars, enabled, last_message_id, chat, faults, listener, pollingVars>>

\* the polling thread hands a callback to _process_callback: mark_as_ordered
\* up to its call of _update_message_content, mark_as_delivered and
\* cancel_order up to the return of delete_message
ListenerBegin ==
    /\ listener = Outside
    /\ \E data \in {d \in CallbackData : d.kind \in {"ordered", "delivered", "cancel"}} :
          LET a == data.asin IN
          IF a \notin DOMAIN tracked_messages
          THEN /\ listener' = Inside(data.kind, a, "answer", 0, 0, NoMessage)
               /\ io' = [IO("listener_begin") EXCEPT !.asin = a]
               /\ UNCHANGED <<tracked_messages, messages_file, last_message_id, chat>>
          ELSE CASE data.kind = "ordered" ->
                      /\ tracked_messages' = [tracked_messages EXCEPT ![a].ordered = TRUE,
                                                                     ![a].ordered_at = day]
                      /\ messages_file' =
                            _save_tracked_messages(tracked_messages', messages_file, "ok")
                      /\ listener' = Inside(data.kind, a, "edit", 0, 0, NoMessage)
                      /\ io' = [IO("listener_begin") EXCEPT !.asin = a]
                      /\ UNCHANGED <<last_message_id, chat>>
                 [] data.kind = "delivered" ->
                      /\ last_message_id < MaxMessages
                      /\ LET m == send_message(enabled, last_message_id, TRUE)
                             d == delete_message(enabled, tracked_messages[a].message_id, TRUE)
                         IN /\ last_message_id' = m.last_id
                            /\ chat' = ChatAfter(chat, data.kind, a, m.calls \o d.calls)
                            /\ io' = [IO("listener_begin") EXCEPT
                                         !.asin = a, !.calls = m.calls \o d.calls]
                      /\ tracked_messages' = [tracked_messages EXCEPT ![a].delivered = TRUE,
                                                                     ![a].delivered_at = day]
                      /\ listener' = Inside(data.kind, a, "remove", 0, 0,
                                            tracked_messages[a].message_id)
                      /\ UNCHANGED messages_file
                 [] OTHER ->
                      /\ LET d == delete_message(enabled, tracked_messages[a].message_id, TRUE)
                         IN /\ io' = [IO("listener_begin") EXCEPT
                                         !.asin = a, !.calls = d.calls]
                            /\ chat' = ChatAfter(chat, data.kind, a, d.calls)
                      /\ listener' = Inside(data.kind, a, "remove", 0, 0,
                                            tracked_messages[a].message_id)
                      /\ UNCHANGED <<tracked_messages, messages_file, last_message_id>>
    /\ UNCHANGED <<day, ledgerVars, enabled, faults, task, pollingVars>>

\* the rest of the callback: the edit and the ordered hook, or the removal of
\* the entry (del tracked_messages[asin]) and the save, then the answer
ListenerEnd ==
    /\ listener # Outside
    /\ CASE listener.stage = "edit" ->
              LET e == _update_message_content(tracked_messages, enabled, listener.asin, TRUE) IN
              /\ io' = [IO("listener_end") EXCEPT
                           !.asin = listener.asin, !.result = e.ok,
                           !.calls = e.calls \o answer_callback_query(e.ok).calls]
              /\ UNCHANGED <<tracked_messages, messages_file>>
         [] listener.stage = "remove" ->
              /\ tracked_messages' = WithoutMessage(tracked_messages, listener.asin)
              /\ messages_file' = _save_tracked_messages(tracked_messages', messages_file, "ok")
              /\ io' = [IO("listener_end") EXCEPT
                           !.asin = listener.asin, !.result = TRUE,
                           !.calls = answer_callback_query(TRUE).calls]
         [] OTHER ->
              /\ io' = [IO("listener_end") EXCEPT
                           !.asin = listener.asin,
                           !.calls = answer_callback_query(FALSE).calls]
              /\ UNCHANGED <<tracked_messages, messages_file>>
    /\ listener' = Outside
    /\ UNCHANGED <<day, ledgerVars, enabled, last_message_id, chat, faults, task, pollingVars>>

NextThreads ==
    \/ TaskBegin
    \/ TaskEnd
    \/ ListenerBegin
    \/ ListenerEnd

SpecThreads == InitThreads /\ [][NextThreads]_vars

\* ------------------------------------------------------------------ startup
\* what data/order_history.json may hold when the process starts: nothing,
\* a history the service saved, bytes that are not JSON ("corrupt"), a file
\* that cannot be opened ("unreadable"), JSON that is not an object, or
\* bytes that are not UTF-8
HistoryFiles ==
    {[kind |-> k, orders |-> <<>>, pending_deliveries |-> EmptyMap] :
        k \in {"absent", "corrupt", "unreadable", "not_object", "not_utf8"}}
      \cup {_save_history(add_order(mark_pending_delivery(EmptyHistory, a, s),
                                    mark_success(OrderRequest(
                                        Product(a, s, StockMin, UnitsOf[a]), 0))),
                          NoFile, "ok") : a \in ASINS, s \in 0..MaxStock}

\* an entry of data/telegram_messages.json: one that converts to the
\* TrackedMessage msg, or one that does not
FileEntries ==
    {[asin |-> a, valid |-> v,
      msg |-> TrackedMessage(1, 1, _create_amazon_cart_url(a, 1), s)] :
        a \in ASINS, v \in BOOLEAN, s \in 0..MaxStock}

\* what data/telegram_messages.json may hold when the process starts:
\* nothing, bytes that are not JSON, or an object of up to two entries
MessagesFiles ==
    {[kind |-> k, messages |-> EmptyMap] : k \in {"absent", "corrupt"}}
      \cup {[kind |-> "entries", entries |-> <<e>>] : e \in FileEntries}
      \cup {[kind |-> "entries", entries |-> <<p[1], p[2]>>] :
               p \in {q \in FileEntries \X FileEntries : q[1].asin # q[2].asin}}

\* the process before OrderService and TelegramClient are constructed
InitStartup ==
    /\ settings \in {x \in Settings : x.max_orders_per_day = MaxLimit /\ ~x.dry_run
                                     /\ x.mode = "notify_only" /\ x.notify_on_order}
    /\ day = 0
    /\ stock = NoStock
    /\ file \in HistoryFiles
    /\ history = EmptyHistory
    /\ pc = "idle"
    /\ todo = <<>>
    /\ orders = <<>>
    /\ io = IO("init")
    /\ placed = EmptyMap
    /\ placed_today = 0
    /\ known = {}
    /\ enabled = TRUE
    /\ messages_file \in MessagesFiles
    /\ tracked_messages = EmptyMap
    /\ last_message_id = 0
    /\ chat = EmptyMap
    /\ faults = 0
    /\ task = Outside
    /\ listener = Outside
    /\ polling_active = FALSE
    /\ last_update_id = 0
    /\ poll = NotPolling

\* OrderService.__init__ and TelegramClient.__init__ load their files;
\* io.raised tells that an exception left OrderService.__init__
Construct ==
    /\ io.op = "init"
    /\ history' = IF _load_history_raises(file) THEN EmptyHistory ELSE _load_history(file)
    /\ tracked_messages' = _load_tracked_messages(messages_file)
    /\ io' = [IO("construct") EXCEPT !.raised = _load_history_raises(file)]
    /\ UNCHANGED <<settings, day, stock, file, pc, todo, orders, placed, placed_today, known,
                   enabled, messages_file, last_message_id, chat, faults, task, listener, pollingVars>>

NextStartup == Construct

SpecStartup == InitStartup /\ [][NextStartup]_vars

\* ------------------------------------------------- one product, evaluated
\* the values a caller may hand to Product(...): amazon_asin None, empty,
\* whitespace only or a real identifier; amounts with a fractional part
ProductAsins == {Null, ""} \cup BlankAsins \cup {AsinOrder[1]}

ProductInputs ==
    [amazon_asin : ProductAsins,
     stock_amount : 0..MaxAmount,
     stock_min_amount : 0..MaxAmount,
     amazon_order_units : (0 - MaxBelowZero)..MaxUnits]

InitModels ==
    /\ settings \in {x \in Settings : x.mode = "shopping_list" /\ ~x.notify_on_order}
    /\ day = 0
    /\ stock = NoStock
    /\ file = NoFile
    /\ history = _load_history(NoFile)
    /\ pc = "idle"
    /\ todo = <<>>
    /\ orders = <<>>
    /\ \E x \in ProductInputs :
          io = [op |-> "input", amazon_asin |-> x.amazon_asin,
                stock_amount |-> x.stock_amount,
                stock_min_amount |-> x.stock_min_amount,
                amazon_order_units |-> x.amazon_order_units]
    /\ placed = EmptyMap
    /\ placed_today = 0
    /\ known = {}
    /\ enabled = FALSE
    /\ messages_file = NoMessagesFile
    /\ tracked_messages = EmptyMap
    /\ last_message_id = 0
    /\ chat = EmptyMap
    /\ faults = 0
    /\ task = Outside
    /\ listener = Outside
    /\ polling_active = FALSE
    /\ last_update_id = 0
    /\ poll = NotPolling

\* Product(...) is constructed from the input (__post_init__ computes
\* missing_amount and packages_to_order) and handed to process_products
MakeProduct ==
    /\ io.op = "input"
    /\ todo' = <<FractionalProduct(io.amazon_asin, io.stock_amount,
                                   io.stock_min_amount, io.amazon_order_units)>>
    /\ pc' = "batch"
    /\ io' = IO("product")
    /\ UNCHANGED <<settings, day, stock, history, file, orders, placed, placed_today, known,
                   telegramVars, pollingVars>>

NextModels == MakeProduct \/ ProcessNext

SpecModels == InitModels /\ [][NextModels]_vars

\* check_and_order's summary of the orders process_products returned: the
\* three lists whose lengths it logs
successful(os) == SelectSeq(os, LAMBDA o : o.status \in {"added_to_list", "voice_ordered"})

failed(os) == SelectSeq(os, LAMBDA o : o.status = "failed")

skipped(os) == SelectSeq(os, LAMBDA o : o.status = "skipped")

\* ----------------------------------------------------- the polling threads
\* a TelegramClient that tracks nothing, or one message sent by an earlier run
InitPolling ==
    /\ settings \in {x \in Settings : x.max_orders_per_day = MaxLimit /\ ~x.dry_run
                                     /\ x.mode = "notify_only" /\ x.notify_on_order}
    /\ day = 0
    /\ stock = NoStock
    /\ file = NoFile
    /\ history = _load_history(file)
    /\ pc = "idle"
    /\ todo = <<>>
    /\ orders = <<>>
    /\ io = IO("init")
    /\ placed = EmptyMap
    /\ placed_today = 0
    /\ known = {}
    /\ enabled = TRUE
    /\ \E n \in 0..1 :
          /\ last_message_id = n
          /\ messages_file =
                IF n = 0 THEN NoMessagesFile
                ELSE _save_tracked_messages(
                        WithMessage(EmptyMap, AsinOrder[1],
                            TrackedMessage(n, 1, _create_amazon_cart_url(AsinOrder[1], 1), 0)),
                        NoMessagesFile, "ok")
    /\ tracked_messages = _load_tracked_messages(messages_file)
    /\ chat = ChatOf(tracked_messages)
    /\ faults = 0
    /\ task = Outside
    /\ listener = Outside
    /\ polling_active = FALSE
    /\ last_update_id = 0
    /\ poll = NotPolling

\* the polling threads that have not returned
Alive == {t \in Threads : poll[t].pc \notin {"none", "returned"}}

\* the history fields are kept for self._polling_thread only
Noted(t, r) ==
    IF poll[t].current THEN r
    ELSE [r EXCEPT !.last = "none", !.slept = 0, !.at_stop = "none", !.handled = {}]

\* the update ids that self._polling_thread and the threads before it have
\* passed to _process_callback
Handled == IF \E u \in Threads : poll[u].current
           THEN poll[CHOOSE u \in Threads : poll[u].current].handled
           ELSE {}

\* start_polling's new thread t becomes self._polling_thread
Started(t) ==
    [u \in Threads |->
        IF u = t THEN [Polling("while") EXCEPT !.current = TRUE, !.handled = Handled]
        ELSE [Polling(poll[u].pc) EXCEPT !.offset = poll[u].offset,
                                         !.updates = poll[u].updates]]

\* start_polling, called while no earlier loop is running: nothing happens
\* when polling is active or the client is disabled
StartPolling ==
    /\ task = Outside
    /\ Alive = {}
    /\ IF polling_active \/ ~enabled
       THEN UNCHANGED <<polling_active, poll>>
       ELSE /\ polling_active' = TRUE
            /\ poll' = Started(1)
    /\ io' = IO("start_polling")
    /\ UNCHANGED <<day, ledgerVars, telegramVars, last_update_id>>

\* start_polling, called after stop_polling while the earlier loop has not
\* returned: the flag is clear, so a new thread is started
StartPollingAgain ==
    /\ task = Outside
    /\ Alive # {}
    /\ ~polling_active
    /\ enabled
    /\ \E t \in Threads \ Alive :
          /\ \A u \in Threads \ Alive : t <= u
          /\ poll' = Started(t)
    /\ polling_active' = TRUE
    /\ io' = IO("start_polling")
    /\ UNCHANGED <<day, ledgerVars, telegramVars, last_update_id>>

\* stop_polling clears the flag and joins self._polling_thread
StopPolling ==
    /\ task = Outside
    /\ \E t \in Threads : poll[t].pc # "none"
    /\ polling_active' = FALSE
    /\ poll' = [t \in Threads |->
                 Noted(t, [poll[t] EXCEPT !.at_stop = IF polling_active /\ t \in Alive
                                                      THEN poll[t].pc ELSE @])]
    /\ task' = Inside("stop_polling", NoAsin, "join", 0, 0, NoMessage)
    /\ io' = IO("stop_polling")
    /\ UNCHANGED <<day, ledgerVars, enabled, tracked_messages, messages_file,
                   last_message_id, chat, faults, listener, last_update_id>>

\* join(timeout=5) returns: the thread has ended, or 5 seconds have passed
JoinReturns ==
    /\ task.op = "stop_polling"
    /\ task' = Outside
    /\ io' = [IO("join") EXCEPT
                 !.result = (\A t \in Threads : poll[t].current => poll[t].pc = "returned")]
    /\ UNCHANGED <<day, ledgerVars, enabled, tracked_messages, messages_file,
                   last_message_id, chat, faults, listener, pollingVars>>

\* variant: the request asks for the update handled last once more
NextOffset_Same(last) == last

\* "offset": self._last_update_id + 1
NextOffset(last) == last + 1

\* variant: the loop goes on whatever the flag
WhileTest_Always(active) == TRUE

\* while self._polling_active
WhileTest(active) == active

\* the loop test: the thread starts the next poll cycle or returns
LoopTest ==
    \E t \in Threads :
    /\ poll[t].pc = "while"
    /\ poll' = [poll EXCEPT ![t] =
                 IF WhileTest(polling_active)
                 THEN [@ EXCEPT !.pc = "get", !.offset = NextOffset(last_update_id)]
                 ELSE [@ EXCEPT !.pc = "returned"]]
    /\ io' = IO("loop_test")
    /\ UNCHANGED <<day, ledgerVars, telegramVars, polling_active, last_update_id>>

\* the updates a response may carry: at most MaxBatch of them, numbered
\* from the request's offset, each with or without a callback_query
Responses(offset) ==
    {<<>>}
      \cup {<<[update_id |-> offset, callback |-> b]>> :
               b \in {x \in BOOLEAN : offset <= MaxUpdates}}
      \cup {<<[update_id |-> offset, callback |-> p[1]],
              [update_id |-> offset + 1, callback |-> p[2]]>> :
               p \in {x \in BOOLEAN \X BOOLEAN : offset + 1 <= MaxUpdates /\ MaxBatch >= 2}}

\* requests.get(getUpdates) ends: requests.exceptions.Timeout is passed over,
\* any other exception (ConnectionError, a body that is not JSON) is logged
\* and followed by time.sleep(5); a response is looped over when it is ok
GetUpdates ==
    \E t \in Threads :
    /\ poll[t].pc = "get"
    /\ \/ /\ poll' = [poll EXCEPT ![t] = Noted(t, [@ EXCEPT !.pc = "while", !.last = "timeout", !.slept = 0])]
          /\ io' = [IO("get_updates") EXCEPT !.action = "timeout"]
       \/ /\ poll' = [poll EXCEPT ![t] = Noted(t, [@ EXCEPT !.pc = "sleep", !.last = "error", !.slept = 0])]
          /\ io' = [IO("get_updates") EXCEPT !.action = "error", !.raised = TRUE]
       \/ /\ poll' = [poll EXCEPT ![t] = Noted(t, [@ EXCEPT !.pc = "while", !.last = "not_ok", !.slept = 0])]
          /\ io' = [IO("get_updates") EXCEPT !.action = "not_ok"]
       \/ \E us \in Responses(poll[t].offset) :
             /\ poll' = [poll EXCEPT ![t] = Noted(t,
                            [@ EXCEPT !.pc = IF us = <<>> THEN "while" ELSE "for",
                                      !.last = "ok", !.slept = 0, !.updates = us])]
             /\ io' = [IO("get_updates") EXCEPT !.action = "ok"]
    /\ UNCHANGED <<day, ledgerVars, telegramVars, polling_active, last_update_id>>

\* one iteration of the loop over the updates: _last_update_id is set and
\* the update's callback_query, if it has one, goes to _process_callback.
\* An exception that leaves the iteration (a callback_query that is no dict,
\* or whose data is no string) ends the loop over the updates: it is logged
\* and followed by time.sleep(5)
ForUpdate ==
    \E t \in Threads :
    /\ poll[t].pc = "for"
    /\ LET u == Head(poll[t].updates) IN
       /\ last_update_id' = u.update_id
       /\ \/ /\ poll' = [poll EXCEPT ![t] = Noted(t,
                            [@ EXCEPT !.updates = Tail(@),
                                      !.handled = IF u.callback
                                                  THEN @ \cup {u.update_id} ELSE @,
                                      !.pc = IF Tail(poll[t].updates) = <<>>
                                              THEN "while" ELSE "for"])]
             /\ IF u.callback
                THEN \E data \in CallbackData :
                     \E o \in Outcome(CallbackMakes(data)) :
                        LET r == _process_callback(tracked_messages, messages_file, enabled,
                                                   last_message_id, data, day, o)
                        IN /\ TelegramStep(data.kind, data.asin, 0, 0, r, o)
                           /\ last_message_id' = r.last_id
                ELSE /\ io' = IO("update")
                     /\ UNCHANGED <<day, ledgerVars, telegramVars>>
          \/ /\ u.callback
             /\ faults < MaxFaults
             /\ poll' = [poll EXCEPT ![t] = Noted(t,
                            [@ EXCEPT !.updates = <<>>,
                                      !.handled = @ \cup {u.update_id},
                                      !.pc = "sleep", !.last = "error", !.slept = 0])]
             /\ faults' = faults + 1
             /\ io' = [IO("update") EXCEPT
                          !.raised = TRUE,
                          !.action = IF Tail(poll[t].updates) = <<>>
                                     THEN "last_of_batch" ELSE "mid_batch"]
             /\ UNCHANGED <<day, ledgerVars, enabled, tracked_messages, messages_file,
                            last_message_id, chat, task, listener>>
    /\ UNCHANGED polling_active

\* time.sleep(5) returns
Sleep ==
    \E t \in Threads :
    /\ poll[t].pc = "sleep"
    /\ poll' = [poll EXCEPT ![t] = Noted(t, [@ EXCEPT !.pc = "while", !.slept = PollErrorDelay])]
    /\ io' = IO("sleep")
    /\ UNCHANGED <<day, ledgerVars, telegramVars, polling_active, last_update_id>>

\* a caller that starts polling only when the earlier loop has returned
NextPolling ==
    \/ StartPolling
    \/ StopPolling
    \/ JoinReturns
    \/ LoopTest
    \/ GetUpdates
    \/ ForUpdate
    \/ Sleep

SpecPolling == InitPolling /\ [][NextPolling]_vars

\* the thread is scheduled again and again, requests.get ends within its
\* timeout of 35 seconds, a callback's requests end within theirs and
\* time.sleep(5) returns
SpecPollingFair ==
    /\ SpecPolling
    /\ WF_vars(LoopTest)
    /\ WF_vars(GetUpdates)
    /\ WF_vars(ForUpdate)
    /\ WF_vars(Sleep)

\* any caller of start_polling and stop_polling
NextListeners ==
    \/ StartPolling
    \/ StartPollingAgain
    \/ StopPolling
    \/ JoinReturns
    \/ LoopTest
    \/ GetUpdates
    \/ ForUpdate
    \/ Sleep

\* a TelegramClient constructed without a file of tracked messages, and a
\* Bot API that answers every request
InitListeners ==
    /\ settings \in {x \in Settings : x.max_orders_per_day = MaxLimit /\ ~x.dry_run
                                     /\ x.mode = "notify_only" /\ x.notify_on_order}
    /\ day = 0
    /\ stock = NoStock
    /\ file = NoFile
    /\ history = _load_history(file)
    /\ pc = "idle"
    /\ todo = <<>>
    /\ orders = <<>>
    /\ io = IO("init")
    /\ placed = EmptyMap
    /\ placed_today = 0
    /\ known = {}
    /\ enabled = TRUE
    /\ last_message_id = 0
    /\ messages_file = NoMessagesFile
    /\ tracked_messages = _load_tracked_messages(messages_file)
    /\ chat = EmptyMap
    /\ faults = MaxFaults
    /\ task = Outside
    /\ listener = Outside
    /\ polling_active = FALSE
    /\ last_update_id = 0
    /\ poll = NotPolling

SpecListeners == InitListeners /\ [][NextListeners]_vars

\* ------------------------------------------------------------ a dry run
\* the service is started with DRY_RUN set, with no history file or with the
\* file an earlier run without DRY_RUN saved
InitDryRun ==
    /\ settings \in {x \in Settings : x.dry_run}
    /\ day = 0
    /\ stock = NoStock
    /\ file \in {f \in HistoryFiles : f.kind = "absent" \/ f.pending_deliveries # EmptyMap}
    /\ history = _load_history(file)
    /\ pc = "idle"
    /\ todo = <<>>
    /\ orders = <<>>
    /\ io = IO("init")
    /\ placed = EmptyMap
    /\ placed_today = 0
    /\ known = {}
    /\ enabled = FALSE
    /\ messages_file = NoMessagesFile
    /\ tracked_messages = _load_tracked_messages(messages_file)
    /\ last_message_id = 0
    /\ chat = EmptyMap
    /\ faults = 0
    /\ task = Outside
    /\ listener = Outside
    /\ polling_active = FALSE
    /\ last_update_id = 0
    /\ poll = NotPolling

SpecDryRun == InitDryRun /\ [][Next]_vars

\* ------------------------------------------------------- ledger properties
\* a step of ProcessNext that calls process_order for Head(todo)
ProcessOrderStep == pc = "batch" /\ todo # <<>> /\ io'.op = "process_order"

\* the call of the step was denied by can_place_order
Denied == ~can_place_order(history, settings, Head(todo), day).allowed

\* the step returned a Skipped order and placed nothing
ReturnedSkipped ==
    /\ orders' # <<>>
    /\ Last(orders').status = "skipped"
    /\ io'.action = "none"
    /\ Len(history'.orders) = Len(history.orders)

Products == {Product(a, s, StockMin, UnitsOf[a]) : a \in ASINS, s \in 0..MaxStock}

\* C2: whenever the number of ledger entries created today is >=
\* max_orders_per_day, can_place_order is denied with the daily-limit reason
\* for every identifier, with or without a marker, whatever the stock, and
\* leaves the history as it is.
C2_DailyLimitFirst ==
    count_orders_today(history, day) >= settings.max_orders_per_day
      => \A p \in Products :
            LET c == can_place_order(history, settings, p, day) IN
            ~c.allowed /\ c.reason = "daily_limit" /\ c.history = history

\* process_order was denied for the daily limit although the product has a
\* marker and its stock is not above it (the pending delivery would deny too)
C2_Witness ==
    /\ io.op = "process_order"
    /\ orders # <<>>
    /\ Last(orders).status = "skipped"
    /\ Last(orders).error_message = "daily_limit"
    /\ settings.max_orders_per_day > 0
    /\ io.asin \in DOMAIN history.pending_deliveries
    /\ io.stock <= history.pending_deliveries[io.asin]

\* C3 as stated: when an evaluation cycle has gone through its products,
\* every marker whose identifier's fetched stock is greater than the marker's
\* stock has been deleted.
C3_SelfHealingEveryCycle ==
    (pc \in {"batch", "return"} /\ todo = <<>> /\ ~io.raised)
      => \A a \in DOMAIN history.pending_deliveries :
            stock[a] <= history.pending_deliveries[a]

Resolved == ProcessOrderStep /\ ~Denied /\ ~settings.dry_run

\* C6 as stated: every resolved order attempt appends exactly one entry to
\* the ledger, with status Placed or Failed, and the marker of the identifier
\* is set to the stock at order time exactly when the status is Placed.
C6_RecordResolution ==
    [][Resolved
          => /\ Len(history'.orders) = Len(history.orders) + 1
             /\ Last(history'.orders).asin = Head(todo).amazon_asin
             /\ Last(history'.orders).status \in {"added_to_list", "failed"}
             /\ Last(history'.orders).status = "added_to_list"
                   <=> /\ Head(todo).amazon_asin \in DOMAIN history'.pending_deliveries
                       /\ history'.pending_deliveries[Head(todo).amazon_asin]
                             = Head(todo).stock_amount]_vars

\* what the denied path leaves alone: no fulfilment, no marker set, changed or
\* deleted, no save, no notification, no Telegram call
DeniedFrame ==
    /\ io'.action = "none"
    /\ history'.pending_deliveries = history.pending_deliveries
    /\ file' = file
    /\ io'.notified = <<>>
    /\ io'.calls = <<>>
    /\ UNCHANGED telegramVars

CallsOf(calls, api) == {i \in DOMAIN calls : calls[i].api = api}

\* C4 as stated: after cancel_order(X) returned true no pending-delivery
\* marker exists for X, and can_place_order for X is not denied for a
\* pending delivery.
C4_CancelClearsMarker ==
    (io.op = "cancel" /\ io.result)
      => /\ io.asin \notin DOMAIN history.pending_deliveries
         /\ \A s \in 0..MaxStock :
               can_place_order(history, settings,
                               Product(io.asin, s, StockMin, UnitsOf[io.asin]),
                               day).reason # "delivery_pending"

\* C8: a send_order_notification for an identifier without an entry issues
\* exactly one Send, and creates the entry with the handle Telegram returned
\* when the Send succeeded; every call for an identifier whose entry is not
\* yet ordered issues no Send: it keeps the handle and only edits the message
\* of that handle.
C8_UpsertSendsOnce ==
    [][io'.op = "send_order_notification"
          => LET a == io'.asin IN
             CASE StateOf(tracked_messages, a) = "absent" ->
                    /\ enabled => /\ Len(io'.calls) = 1
                                  /\ io'.calls[1].api = "sendMessage"
                    /\ a \in DOMAIN tracked_messages'
                          <=> (io'.calls # <<>> /\ io'.calls[1].ok)
                    /\ a \in DOMAIN tracked_messages'
                          => /\ tracked_messages'[a].message_id = io'.calls[1].message_id
                             /\ tracked_messages'[a].message_id = last_message_id'
                             /\ last_message_id' = last_message_id + 1
               [] StateOf(tracked_messages, a) = "created" ->
                    /\ CallsOf(io'.calls, "sendMessage") = {}
                    /\ last_message_id' = last_message_id
                    /\ a \in DOMAIN tracked_messages'
                    /\ tracked_messages'[a].message_id = tracked_messages[a].message_id
                    /\ ~tracked_messages'[a].ordered
                    /\ io'.calls = IF enabled
                                   THEN <<Call("editMessageText",
                                               tracked_messages[a].message_id,
                                               io'.calls[1].ok)>>
                                   ELSE <<>>
               [] OTHER -> TRUE]_vars

\* a second send_order_notification for an entry that is not yet ordered
\* edited the message the first one had sent
C8_Witness ==
    /\ io.op = "send_order_notification"
    /\ io.before = "created"
    /\ io.asin \in DOMAIN tracked_messages
    /\ io.calls = <<Call("editMessageText", tracked_messages[io.asin].message_id, TRUE)>>
    /\ tracked_messages[io.asin].quantity = io.quantity

\* C9: a send_order_notification for an entry that is Ordered and not
\* Delivered does what update_stock does and nothing else: the entry keeps
\* ordered, ordered_at, quantity, handle and link, only current_stock takes
\* the new value, and no message is sent or deleted.
C9_UpsertOnOrdered ==
    [][(io'.op = "send_order_notification"
          /\ StateOf(tracked_messages, io'.asin) = "ordered"
          /\ ~tracked_messages[io'.asin].delivered)
          => LET a == io'.asin IN
             /\ tracked_messages' = [tracked_messages EXCEPT ![a].current_stock = io'.stock]
             /\ tracked_messages'[a].ordered
             /\ tracked_messages'[a].ordered_at = tracked_messages[a].ordered_at
             /\ tracked_messages'[a].quantity = tracked_messages[a].quantity
             /\ last_message_id' = last_message_id
             /\ CallsOf(io'.calls, "sendMessage") = {}
             /\ CallsOf(io'.calls, "deleteMessage") = {}
             /\ \E o \in Transport :
                   LET u == update_stock(tracked_messages, messages_file, enabled, a,
                                         io'.stock, o.edit, o.save)
                   IN /\ tracked_messages' = u.tracked
                      /\ messages_file' = u.file
                      /\ io'.calls = u.calls
                      /\ io'.result = u.result]_vars

\* send_order_notification was called for an Ordered entry with another
\* quantity and another stock: the stock was refreshed, the quantity kept
C9_Witness ==
    /\ io.op = "send_order_notification"
    /\ io.before = "ordered"
    /\ io.asin \in DOMAIN tracked_messages
    /\ tracked_messages[io.asin].ordered
    /\ tracked_messages[io.asin].quantity # io.quantity
    /\ tracked_messages[io.asin].current_stock = io.stock
    /\ io.calls # <<>>

\* C10: when a Created entry receives the 'ordered' callback it becomes
\* Ordered with ordered_at set to the time of the callback, exactly one Edit
\* of its message is issued, and no Send and no Delete.
C10_OrderedCallback ==
    [][io'.op = "ordered" /\ StateOf(tracked_messages, io'.asin) = "created"
          => LET a == io'.asin IN
             /\ tracked_messages' = [tracked_messages EXCEPT ![a].ordered = TRUE,
                                                            ![a].ordered_at = day]
             /\ tracked_messages'[a].ordered_at # NoTime
             /\ Cardinality(CallsOf(io'.calls, "editMessageText")) = 1
             /\ \A i \in CallsOf(io'.calls, "editMessageText") :
                   io'.calls[i].message_id = tracked_messages[a].message_id
             /\ CallsOf(io'.calls, "sendMessage") = {}
             /\ CallsOf(io'.calls, "deleteMessage") = {}
             /\ last_message_id' = last_message_id]_vars

\* a Created entry received the 'ordered' callback and is Ordered
C10_Witness ==
    /\ io.op = "ordered"
    /\ io.before = "created"
    /\ io.asin \in DOMAIN tracked_messages
    /\ tracked_messages[io.asin].ordered
    /\ tracked_messages[io.asin].ordered_at = day
    /\ io.result

\* ------------------------------------------------------ callback properties
\* a step of ProcessCallback for a callback of the given kind
CallbackStep(kind) == io'.op = kind /\ io'.asin \in TelegramAsins

\* the entry of the callback's identifier before the step
Entry == tracked_messages[io'.asin]

\* the step left the tracker, the messages file, the message counter and
\* the ledger as they were
NothingChanged ==
    /\ tracked_messages' = tracked_messages
    /\ messages_file' = messages_file
    /\ last_message_id' = last_message_id
    /\ UNCHANGED <<day, ledgerVars, enabled>>

\* what a 'delivered' callback for a tracked identifier does in the chat and
\* in memory: one confirmation Send, one Delete of the original message, the
\* entry removed from the tracker, the success toast as the last request
DeliveredInMemory ==
    /\ Cardinality(CallsOf(io'.calls, "sendMessage")) = 1
    /\ \E i \in CallsOf(io'.calls, "deleteMessage") :
          io'.calls[i].message_id = Entry.message_id
    /\ Cardinality(CallsOf(io'.calls, "deleteMessage")) = 1
    /\ CallsOf(io'.calls, "editMessageText") = {}
    /\ io'.asin \notin DOMAIN tracked_messages'
    /\ io'.result
    /\ Last(io'.calls) = Call("answerCallbackQuery", NoMessage, TRUE)

\* a 'delivered' callback for an identifier without an entry: nothing changes
\* and the only request is the answer to the callback query (error toast)
DeliveredAgain ==
    /\ NothingChanged
    /\ ~io'.result
    /\ io'.calls = <<Call("answerCallbackQuery", NoMessage, FALSE)>>

C12_CancelCallback ==
    [][CallbackStep("cancel") /\ StateOf(tracked_messages, io'.asin) \in {"created", "ordered"}
          => /\ Cardinality(CallsOf(io'.calls, "deleteMessage")) = 1
             /\ \A i \in CallsOf(io'.calls, "deleteMessage") :
                   io'.calls[i].message_id = Entry.message_id
             /\ io'.asin \notin DOMAIN tracked_messages'
             /\ CallsOf(io'.calls, "on_ordered_callback") = {}
             /\ CallsOf(io'.calls, "on_delivered_callback") = {}
             /\ CallsOf(io'.calls, "sendMessage") = {}
             /\ CallsOf(io'.calls, "editMessageText") = {}
             /\ io'.result]_vars

\* an Ordered entry was cancelled
C12_Witness ==
    /\ io.op = "cancel"
    /\ io.before = "ordered"
    /\ io.result
    /\ io.asin \notin DOMAIN tracked_messages

C14_EveryCallbackAnswered ==
    io.op \in {"ordered", "delivered", "cancel", "noop", "other"}
      => /\ io.calls # <<>>
         /\ Last(io.calls).api = "answerCallbackQuery"

\* C15: update_stock for a tracked identifier changes nothing of the tracker
\* but the entry's current_stock: the ordered and delivered flags,
\* ordered_at, the message id, the quantity and the set of tracked
\* identifiers stay, the ledger stays, and its only requests are Edits of
\* the entry's message, never a Send or a Delete.
C15_StockRefreshKeepsState ==
    [][io'.op = "update_stock" /\ io'.asin \in DOMAIN tracked_messages
          => /\ tracked_messages' =
                   [tracked_messages EXCEPT ![io'.asin].current_stock = io'.stock]
             /\ \A i \in DOMAIN io'.calls :
                   /\ io'.calls[i].api = "editMessageText"
                   /\ io'.calls[i].message_id = Entry.message_id
             /\ last_message_id' = last_message_id
             /\ UNCHANGED <<day, ledgerVars, enabled>>]_vars

\* the stock shown for an Ordered entry was refreshed to a new value
C15_Witness ==
    /\ io.op = "update_stock"
    /\ io.before = "ordered"
    /\ io.saved = "ok"
    /\ io.asin \in DOMAIN tracked_messages
    /\ tracked_messages[io.asin].ordered
    /\ tracked_messages[io.asin].current_stock = io.stock
    /\ io.calls # <<>>

\* the registered hook of the given name was called in the step and raised
HookRaised(name) == \E i \in CallsOf(io'.calls, name) : ~io'.calls[i].ok

\* C16: when the ordered hook raises, mark_as_ordered still returns True with
\* the entry Ordered, ordered_at set and the tracker written; when the
\* delivered hook raises, mark_as_delivered still removes the entry and
\* writes the tracker; in both cases nothing is raised and the callback query
\* is answered (success toast) as the last request.
C16_HookFailuresContained ==
    [][/\ CallbackStep("ordered") /\ HookRaised("on_ordered_callback")
            => /\ ~io'.raised
               /\ io'.result
               /\ tracked_messages' = [tracked_messages EXCEPT ![io'.asin].ordered = TRUE,
                                                              ![io'.asin].ordered_at = day]
               /\ io'.saved \in SaveOutcomes
               /\ messages_file' =
                     _save_tracked_messages(tracked_messages', messages_file, io'.saved)
               /\ Last(io'.calls) = Call("answerCallbackQuery", NoMessage, TRUE)
       /\ CallbackStep("delivered") /\ HookRaised("on_delivered_callback")
            => /\ ~io'.raised
               /\ io'.result
               /\ tracked_messages' = WithoutMessage(tracked_messages, io'.asin)
               /\ io'.saved \in SaveOutcomes
               /\ messages_file' =
                     _save_tracked_messages(tracked_messages', messages_file, io'.saved)
               /\ Last(io'.calls) = Call("answerCallbackQuery", NoMessage, TRUE)]_vars

\* the delivered hook raised while an Ordered entry was marked as delivered;
\* the entry is gone from the tracker and from the file
C16_Witness ==
    /\ io.op = "delivered"
    /\ io.before = "ordered"
    /\ \E i \in CallsOf(io.calls, "on_delivered_callback") : ~io.calls[i].ok
    /\ io.asin \notin DOMAIN tracked_messages
    /\ io.saved = "ok"
    /\ messages_file.kind = "json"
    /\ io.asin \notin DOMAIN messages_file.messages

\* the number of times the ordered hook was called in the step
OrderedHookCalls == Cardinality(CallsOf(io'.calls, "on_ordered_callback"))

\* C17 as stated: with an ordered hook registered, an 'ordered' callback
\* for a tracked identifier calls the hook exactly once when it takes the
\* entry from Created to Ordered, whatever the outcome of the edit, and not
\* at all when the entry is Ordered already.
C17_OrderedHookOnce ==
    [][CallbackStep("ordered") /\ io'.asin \in DOMAIN tracked_messages
         /\ io'.hook # "unset"
          => OrderedHookCalls =
                (IF StateOf(tracked_messages, io'.asin) = "created" THEN 1 ELSE 0)]_vars

\* ----------------------------------------------------- two-thread properties
\* C18 as stated: the evaluation thread is never inside send_order_notification
\* or update_stock while the polling thread is inside mark_as_ordered,
\* mark_as_delivered or cancel_order.
C18_MutualExclusion ==
    ~(task # Outside /\ listener # Outside)

\* ------------------------------------------------------ persistence properties
\* the step was an operation of the order service or of the Telegram client
\* (not the passing of time or a restart) and no write of it failed
CompletedWithoutWriteFailure ==
    /\ io'.op \notin {"next_day", "restart", "check_and_order", "idle"}
    /\ io'.saved \in {"none", "ok"}

\* C19 as stated: after every completed operation that changed the ledger
\* (marker set, marker cleared by a stock increase) or the tracker (entry
\* created, display fields updated, stock refreshed, Ordered transition,
\* entry removed), the history file and the messages file hold the
\* in-memory state, unless a write of the operation failed.
C19_FlushOnMutate ==
    [][CompletedWithoutWriteFailure
          => /\ history' # history => file' = _save_history(history', file, "ok")
             /\ tracked_messages' # tracked_messages
                   => messages_file' =
                         _save_tracked_messages(tracked_messages', messages_file, "ok")]_vars

\* --------------------------------------------------------- batch properties
\* C20 as stated: whatever fails while process_products handles one item
\* (the fulfilment, the save of the history, a notification), the item's
\* order request is appended to the list that process_products returns and
\* the remaining items of the batch stay to be processed.
C20_PerItemIsolation ==
    [][ProcessOrderStep
          => /\ Len(orders') = Len(orders) + 1
             /\ Last(orders').asin = Head(todo).amazon_asin
             /\ todo' = Tail(todo)
             /\ pc' = "batch"]_vars

\* --------------------------------------------------------- startup properties
\* the history file exists and does not hold a history
InvalidHistoryFile == file.kind \notin {"absent", "json"}

\* the messages file exists and does not hold a tracker: it is no JSON, or
\* one of its entries does not convert
InvalidMessagesFile ==
    \/ messages_file.kind = "corrupt"
    \/ /\ messages_file.kind = "entries"
       /\ \E i \in DOMAIN messages_file.entries : ~messages_file.entries[i].valid

\* C21 as stated: when the history file or the messages file exists but
\* cannot be read or parsed, as a whole or in one entry, construction
\* raises nothing and the component starts empty: no orders and no markers,
\* no tracked entries.
C21_InvalidFileStartsEmpty ==
    io.op = "construct"
      => /\ ~io.raised
         /\ InvalidHistoryFile => history = EmptyHistory
         /\ InvalidMessagesFile => tracked_messages = EmptyMap

\* a restart that finds the files exactly as the running process last wrote
\* them: the ledger file is what _save_history writes for the ledger in memory
\* and the tracker file is what _save_tracked_messages writes for the tracker
\* (or no tracker file exists because nothing was ever tracked)
RestartAfterSave ==
    /\ io'.op = "restart"
    /\ file = _save_history(history, file, "ok")
    /\ IF tracked_messages = EmptyMap
       THEN messages_file.kind \in {"absent", "json"} /\ messages_file.messages = EmptyMap
       ELSE messages_file = _save_tracked_messages(tracked_messages, messages_file, "ok")

\* C22: persistence round trip: saving the ledger and the tracker and loading
\* them in a fresh process yields the same state, every ledger entry and
\* every pending-delivery marker and every tracked message included
C22_PersistenceRoundTrip ==
    [][RestartAfterSave => /\ history' = history
                           /\ tracked_messages' = tracked_messages]_vars

\* the Product that MakeProduct has just constructed
Constructed == io.op = "product"

\* C23: for every product with stock_amount >= stock_min_amount,
\* missing_amount is 0, packages_to_order is 0 and needs_reorder is false,
\* whatever the identifier and the units per package
C23_NoNeedAtOrAboveMinimum ==
    Constructed =>
        LET p == Head(todo) IN
        p.stock_amount >= p.stock_min_amount
            => /\ p.missing_amount = 0
               /\ p.packages_to_order = 0
               /\ ~needs_reorder(p)

C23_Witness ==
    /\ Constructed
    /\ Head(todo).stock_amount > Head(todo).stock_min_amount
    /\ Head(todo).stock_amount % Denominator # 0
    /\ Head(todo).amazon_asin = AsinOrder[1]
    /\ Head(todo).amazon_order_units > 1
    /\ ~needs_reorder(Head(todo))

\* the least integer n with n * d >= m, for m >= 0 and d > 0
Ceiling(m, d) == CHOOSE n \in 0..m : n * d >= m /\ (n > 0 => (n - 1) * d < m)

\* C24: ceiling rule: for a missing amount m = stock_min_amount -
\* stock_amount > 0 and units u >= 1, packages_to_order is ceil(m / u) and at
\* least 1, for integer and fractional stock alike
C24_CeilingRule ==
    Constructed =>
        LET p == Head(todo)
            m == p.stock_min_amount - p.stock_amount
        IN (m > 0 /\ p.amazon_order_units >= 1)
            => /\ p.packages_to_order = Ceiling(m, Denominator * p.amazon_order_units)
               /\ p.packages_to_order >= 1

\* C25: packages_to_order > 0 if and only if missing_amount > 0 and the
\* order identifier is present and non-empty
C25_PackagesIffMissingAndIdentifier ==
    Constructed =>
        LET p == Head(todo) IN
        p.packages_to_order > 0
            <=> (p.missing_amount > 0 /\ p.amazon_asin # Null /\ p.amazon_asin # "")

\* eligible for automated ordering: an identifier that is non-empty after
\* trimming whitespace, and a missing amount above 0
Eligible(p) ==
    /\ p.amazon_asin \notin ({Null, ""} \cup BlankAsins)
    /\ p.stock_min_amount - p.stock_amount > 0

\* C26: a product is processed by process_products (process_order is called
\* for it) if and only if its identifier is non-empty after trimming
\* whitespace and its missing amount is above 0; every other product is
\* skipped silently: no order request, no ledger entry, no error
C26_Eligibility ==
    [][(pc = "batch" /\ todo # <<>>)
         => /\ io'.op = "process_order" <=> Eligible(Head(todo))
            /\ needs_reorder(Head(todo)) <=> Eligible(Head(todo))
            /\ ~Eligible(Head(todo))
                 => /\ io'.op = "skip_product"
                    /\ orders' = orders
                    /\ history' = history
                    /\ file' = file
                    /\ ~io'.raised]_vars

C26_Witness ==
    /\ io.op = "skip_product"
    /\ io.asin \in BlankAsins
    /\ io.stock = 0
    /\ orders = <<>>
    /\ history = EmptyHistory

\* the number of entries of a list of orders that were created on `today`
RECURSIVE CreatedOn(_, _)
CreatedOn(os, today) ==
    IF os = <<>> THEN 0
    ELSE (IF Head(os).created_at = today THEN 1 ELSE 0) + CreatedOn(Tail(os), today)

\* process_order has just appended an order, created now, to the ledger
OrderAdded ==
    /\ day' = day
    /\ Len(history'.orders) = Len(history.orders) + 1
    /\ SubSeq(history'.orders, 1, Len(history.orders)) = history.orders
    /\ Last(history'.orders).created_at = day

\* C27: count_orders_today is the number of ledger entries created on the
\* current calendar day, whatever their status: entries of earlier days are
\* not counted, and adding one order created now raises the count by
\* exactly one
C27_CountOrdersToday ==
    /\ [](/\ count_orders_today(history, day) = CreatedOn(history.orders, day)
          /\ count_orders_today(history, day)
                = Len(history.orders)
                    - Cardinality({i \in 1..Len(history.orders) :
                                      history.orders[i].created_at < day}))
    /\ [][OrderAdded => count_orders_today(history', day')
                            = count_orders_today(history, day) + 1]_vars

C27_Witness ==
    /\ io.op = "process_order"
    /\ Len(history.orders) = 2
    /\ history.orders[1].created_at < day
    /\ history.orders[2].created_at = day
    /\ count_orders_today(history, day) = 1

\* process_products has returned its orders to check_and_order, which logs
\* the summary
SummaryLogged == pc = "batch" /\ todo = <<>> /\ orders # <<>>

\* C28: the batch summary is a partition: every order request that
\* process_products returned is counted in exactly one of placed, failed and
\* skipped, and the three counts add up to the number of orders, in every
\* mode and in dry-run
C28_SummaryIsPartition ==
    SummaryLogged =>
        /\ \A i \in 1..Len(orders) :
              Cardinality({k \in {"placed", "failed", "skipped"} :
                  \/ k = "placed" /\ successful(<<orders[i]>>) # <<>>
                  \/ k = "failed" /\ failed(<<orders[i]>>) # <<>>
                  \/ k = "skipped" /\ skipped(<<orders[i]>>) # <<>>}) = 1
        /\ Len(successful(orders)) + Len(failed(orders)) + Len(skipped(orders))
              = Len(orders)

\* polling thread t passes the loop test and sends its next getUpdates
Reconnects(t) == poll[t].pc = "while" /\ poll'[t].pc = "get"

\* C29: long-poll retry policy: when the long-poll request times out, the
\* loop treats it as normal and reconnects after a fixed backoff delay; on
\* any other transport failure it reports the error and does not retry the
\* failed poll (it sends no further request for the same offset)
C29_LongPollRetryPolicy ==
    [][\A t \in Threads :
         Reconnects(t)
           => /\ poll[t].last = "timeout" => poll[t].slept > 0
              /\ poll[t].last = "error" => poll'[t].offset # poll[t].offset]_vars

\* stop_polling has been called and thread t has not returned yet
Stopping(t) == ~polling_active /\ t \in Alive

C31_NoStaleMarkerBlock ==
    [][(/\ ProcessOrderStep
        /\ Head(todo).amazon_asin \notin DOMAIN placed
        /\ count_orders_today(history, day) < settings.max_orders_per_day)
          => ~Denied]_vars

\* C32: daily cap over whole runs: over any sequence of evaluation cycles and
\* restarts within one calendar day, the number of orders placed (ledger
\* entry appended and marker set) never exceeds max_orders_per_day
C32_DailyCapAcrossRestarts == placed_today <= settings.max_orders_per_day

\* C33: a Failed order leaves no trace in the dedup state: whenever
\* process_order returns an order with status Failed, the call has set or
\* overwritten no marker (the markers are those can_place_order left) and
\* has appended no ledger entry, also when the failure is an exception
\* raised after the fulfilment action succeeded
C33_FailedLeavesNoTrace ==
    [][(ProcessOrderStep /\ ~io'.raised /\ orders' # <<>>
          /\ Last(orders').status = "failed")
         => /\ history'.pending_deliveries
                  = can_place_order(history, settings, Head(todo), day)
                        .history.pending_deliveries
            /\ history'.orders = history.orders]_vars

\* every tracked entry's message is in the chat, and every order
\* notification in the chat is the message of its identifier's entry
ChatMatchesTracker ==
    /\ \A a \in DOMAIN tracked_messages : tracked_messages[a].message_id \in DOMAIN chat
    /\ \A m \in DOMAIN chat :
          /\ chat[m] \in DOMAIN tracked_messages
          /\ tracked_messages[chat[m]].message_id = m

\* C34: a delivered or cancel callback on the polling thread interleaved
\* with send_order_notification or update_stock for the same identifier on
\* the evaluation thread: no operation removes an entry that is no longer
\* there, and when both threads have left their calls no tracked entry has
\* a deleted message and no undeleted order notification lacks its entry
C34_CallbackVersusEvaluation ==
    /\ []((task = Outside /\ listener = Outside) => ChatMatchesTracker)
    /\ [][(listener.stage = "remove" /\ listener' = Outside)
            => listener.asin \in DOMAIN tracked_messages]_vars

\* C35: single listener: for every sequence of start_polling and
\* stop_polling calls, also start_polling called after stop_polling's join
\* timed out while the old loop is still inside its long poll, at most one
\* polling loop of the client is running
C35_SingleListener == Cardinality(Alive) <= 1

C37_NoOrphanedNotifications ==
    \A m \in DOMAIN chat :
        /\ chat[m] \in DOMAIN tracked_messages
        /\ tracked_messages[chat[m]].message_id = m

\* C38: link matches quantity: for every tracked entry, after any sequence
\* of send_order_notification calls with changing quantities, the quantity
\* encoded in the entry's cart_url equals the entry's quantity
C38_LinkMatchesQuantity ==
    \A a \in DOMAIN tracked_messages :
        tracked_messages[a].cart_url = _create_amazon_cart_url(a, tracked_messages[a].quantity)

\* C39: placed orders have a positive quantity: every order for which a
\* fulfilment action is invoked or a marker is set has a quantity of at
\* least 1, for every amazon_order_units read from the catalog, 0 and
\* negative values included
C39_PositiveQuantity ==
    [][(/\ ProcessOrderStep
        /\ \/ io'.action # "none"
           \/ /\ Head(todo).amazon_asin \in DOMAIN history'.pending_deliveries
              /\ Len(history'.orders) > Len(history.orders))
         => OrderRequest(Head(todo), day).quantity >= 1]_vars

\* C40: dry-run changes nothing: with dry_run set, process_order for an
\* allowed item invokes no fulfilment, sets no marker, appends no ledger
\* entry, writes no history file and returns the order with status pending;
\* the ledger and the markers after the call equal those before it
C40_DryRunChangesNothing ==
    [][(ProcessOrderStep /\ settings.dry_run /\ ~Denied /\ ~io'.raised)
         => /\ io'.action = "none"
            /\ io'.saved = "none"
            /\ file' = file
            /\ orders' # <<>>
            /\ Last(orders').status = "pending"
            /\ history' = history]_vars

====
